---- MODULE Spec2Model ----
(***************************************************************************)
(* A state-machine model of the codegram backend: the live-channel gateway *)
(* (socket.ts), the follow, moderation, comment and doc controllers, and   *)
(* the relational store they share (schema.prisma).                        *)
(*                                                                         *)
(* Every handler is split at its `await`s: one action per database call    *)
(* together with the synchronous code that follows it, so that handlers    *)
(* interleave exactly where the event loop lets them.  A handler's reply   *)
(* (or a gateway handler's outcome) is published in `out` for one state;   *)
(* `out` also carries a snapshot of what the handler saw, so that a claim  *)
(* about a reply is a state predicate.                                     *)
(***************************************************************************)
EXTENDS Integers, Sequences, FiniteSets, Bags, TLC

VARIABLES
    conns,      \* live channel: per connection [status, timer, age, counts, passed, rooms]
    focus,      \* what a run observes: an event name, or a family of handlers
    recent,     \* per connection: passes of event `focus`, one entry per tick, newest last
    ioReady,    \* socket.ts `io` has been assigned (initializeSocket ran)
    failing,    \* the store calls that throw: a subset of Faults
    emitted,    \* bag of server-side emits [room, event, from]
    follows,    \* Follow rows [id, followerId, followingId]
    followSeq,  \* Follow ids handed out so far
    notifs,     \* bag of Notification rows [type, recipientId, senderId, commentId]
    hist,       \* per ordered pair [hist: completed toggleFollow calls modulo 2,
                \*                    created: Follow rows created so far]
    blocks,     \* BlockedUser rows [id, blockerId, blockedId]
    blockSeq,   \* BlockedUser ids handed out so far
    reports,    \* Report rows [id, reporterId, reportedId, kind, contentId, status]
    reportSeq,  \* Report ids handed out so far
    docs,       \* Doc rows [id, authorId, isPublic, content]
    bugs,       \* Bug rows [id, authorId, expiresAt]
    comments,   \* Comment rows [id, authorId, snippetId, docId, bugId, parentId]
    commentSeq, \* Comment ids handed out so far
    likes,      \* Like rows [userId, docId]
    bookmarks,  \* Bookmark rows [userId, docId]
    now,        \* the clock `new Date()` reads
    accounts,   \* User rows by GitHub account id: [exists, bio]
    procs,      \* the server processes of the deployment: environment and cron state
    reqs,       \* bag of HTTP requests suspended at an await
    out         \* the reply / outcome of the step just taken, or NoOut

sockVars    == << conns, recent >>
liveVars    == << ioReady, failing, emitted >>
followVars  == << follows, followSeq, notifs, hist >>
modVars     == << blocks, blockSeq, reports, reportSeq >>
contentVars == << docs, bugs, comments, commentSeq, likes, bookmarks >>
httpVars    == << liveVars, followVars, modVars, contentVars, now, accounts, procs, reqs >>

vars == << sockVars, focus, httpVars, out >>

Null  == "null"
NoOut == [op |-> "none"]

(***************************************************************************)
(* Bounds of the model.                                                    *)
(***************************************************************************)
TicksPerMinute == 2
MaxInFlight    == 2
MaxFollowRows  == 3
MaxBlockRows   == 2
MaxComments    == 2
MaxReports     == 2
MaxTime        == 2
MaxEmits       == 3

(***************************************************************************)
(* Values a client can send as a room id.  Str50 and Str51 are strings of  *)
(* 50 and 51 characters.                                                   *)
(***************************************************************************)
Str50 == "aaaaaaaaaabbbbbbbbbbccccccccccddddddddddeeeeeeeeee"
Str51 == "aaaaaaaaaabbbbbbbbbbccccccccccddddddddddeeeeeeeeeef"

Str(s) == [t |-> "string", v |-> s]
Undef  == [t |-> "undefined", v |-> ""]
Num42  == [t |-> "number", v |-> "42"]

Payloads == { Str("u1"), Str(Str50), Str(Str51), Str(""), Undef, Num42 }

\* JavaScript truthiness of a payload: undefined and "" are falsy.
Truthy(p) == \/ p.t = "number"
             \/ p.t = "string" /\ p.v # ""

(***************************************************************************)
(* Live channel gateway (socket.ts).                                       *)
(***************************************************************************)
Conns      == {"s1", "s2"}
EventNames == {"join-user-room", "join-content-room", "leave-content-room"}

UserRoomLimit    == 5
ContentRoomLimit == 10
DefaultLimit     == 10
IdMaxLen         == 50

\* The limit each handler passes to checkRateLimit.
LimitOf(eventName) ==
    CASE eventName = "join-user-room"     -> UserRoomLimit
      [] eventName = "join-content-room"  -> ContentRoomLimit
      [] eventName = "leave-content-room" -> DefaultLimit

NoCounts == [e \in EventNames |-> 0]
NoRecent == [i \in 1..TicksPerMinute |-> 0]

\* A socket that is not connected: no closure, no timer, no rooms.
NoConn == [status |-> "none", timer |-> FALSE, age |-> 0, counts |-> NoCounts,
           passed |-> NoCounts, rooms |-> {}]

\* io.on('connection'): a fresh eventCounts map and a running reset timer.
NewConn == [status |-> "open", timer |-> TRUE, age |-> 0, counts |-> NoCounts,
            passed |-> NoCounts, rooms |-> {}]

\* checkRateLimit: whether the event passes ...
RateLimitOff(counts, eventName, limit) == counts[eventName] > limit
RateLimited(counts, eventName, limit) == counts[eventName] >= limit

\* ... and the map it leaves behind.
CountsAfter(counts, eventName, limit) ==
    IF RateLimited(counts, eventName, limit)
    THEN counts
    ELSE [counts EXCEPT ![eventName] = @ + 1]

\* The id validation of the join and leave handlers.
InvalidId(p) == ~Truthy(p) \/ p.t # "string" \/ Len(p.v) > IdMaxLen

\* The ghost record of passes: one more pass of `eventName` on connection c.
Passed(cn, eventName) == [cn EXCEPT !.passed[eventName] = @ + 1]
RecentAfter(c, eventName) ==
    IF eventName = focus
    THEN [recent EXCEPT ![c][TicksPerMinute] = @ + 1]
    ELSE recent

SockOut(c, eventName, p, result, log) ==
    [op |-> eventName, conn |-> c, payload |-> p, result |-> result, log |-> log,
     before |-> conns[c]]

Connect(c) ==
    /\ conns[c].status # "open"
    /\ conns' = [conns EXCEPT ![c] = NewConn]
    /\ recent' = [recent EXCEPT ![c] = NoRecent]
    /\ out' = [op |-> "connection", conn |-> c]
    /\ UNCHANGED << focus, httpVars >>

\* The three client events share one shape: rate limit, validate, act.
\* `act` is "join" or "leave"; `invalidLog` is what an invalid id logs.
RoomEvent(c, eventName, p, act, invalidLog) ==
    LET cn      == conns[c]
        limit   == LimitOf(eventName)
        counted == [cn EXCEPT !.counts = CountsAfter(cn.counts, eventName, limit)]
    IN
    /\ cn.status = "open"
    /\ IF RateLimited(cn.counts, eventName, limit)
       THEN /\ conns' = [conns EXCEPT ![c] = counted]
            /\ recent' = recent
            /\ out' = SockOut(c, eventName, p, "ratelimited", "warn")
       ELSE IF InvalidId(p)
       THEN /\ conns' = [conns EXCEPT ![c] = Passed(counted, eventName)]
            /\ recent' = RecentAfter(c, eventName)
            /\ out' = SockOut(c, eventName, p, "invalid", invalidLog)
       ELSE /\ conns' = [conns EXCEPT ![c] =
                   [Passed(counted, eventName) EXCEPT !.rooms =
                       IF act = "join" THEN @ \cup {p.v} ELSE @ \ {p.v}]]
            /\ recent' = RecentAfter(c, eventName)
            /\ out' = SockOut(c, eventName, p, IF act = "join" THEN "joined" ELSE "left", "debug")
    /\ UNCHANGED << focus, httpVars >>

JoinUserRoom(c, p)     == RoomEvent(c, "join-user-room", p, "join", "warn")
JoinContentRoom(c, p)  == RoomEvent(c, "join-content-room", p, "join", "warn")
LeaveContentRoom(c, p) == RoomEvent(c, "leave-content-room", p, "leave", "none")

\* One tick of time.  A connection's interval timer fires every
\* TicksPerMinute ticks after the connection was made and clears its map.
TickConn(cn) ==
    IF ~cn.timer THEN cn
    ELSE IF cn.age + 1 = TicksPerMinute
    THEN [cn EXCEPT !.age = 0, !.counts = NoCounts, !.passed = NoCounts]
    ELSE [cn EXCEPT !.age = @ + 1]

Tick ==
    /\ \E c \in Conns : conns[c].status = "open"
    /\ conns' = [c \in Conns |-> TickConn(conns[c])]
    /\ recent' = [c \in Conns |-> Tail(recent[c]) \o << 0 >>]
    /\ out' = [op |-> "tick", before |-> [c \in Conns |-> conns[c].rooms]]
    /\ UNCHANGED << focus, httpVars >>


\* socket.on('disconnect'): clearInterval, then the log call, whose argument
\* reads the undeclared name `reason` and so throws a ReferenceError.
\* socket.io has removed the socket from its rooms by then.
ClearIntervalNoop(timer) == timer
ClearInterval(timer) == FALSE

Disconnect(c) ==
    /\ conns[c].status = "open"
    /\ conns' = [conns EXCEPT ![c] = [@ EXCEPT !.status = "closed",
                                                !.timer = ClearInterval(@),
                                                !.rooms = {}]]
    /\ out' = [op |-> "disconnect", conn |-> c, result |-> "threw", log |-> "none",
               before |-> conns[c]]
    /\ UNCHANGED << focus, recent, httpVars >>

\* socket.on('error'): logs the error.
SocketError(c) ==
    /\ conns[c].status = "open"
    /\ out' = [op |-> "error", conn |-> c, result |-> "logged", log |-> "error",
               before |-> conns[c]]
    /\ UNCHANGED << sockVars, focus, httpVars >>

(***************************************************************************)
(* The store (schema.prisma) and the HTTP side.                            *)
(*                                                                         *)
(* Ids are strings.  Absent marks a field the request or row does not set. *)
(* GhostUser, GhostDoc and GhostBug are well-formed ids of no row; NotCuid *)
(* is a string that is not a cuid.                                         *)
(***************************************************************************)
Absent    == Null
Users     == {"u1", "u2", "u3"}
GhostUser == "u9"
GhostDoc  == "d9"
GhostBug  == "b9"
NotCuid   == "me"

\* Comment ids are numbers; NoComment is the commentId or parentId that is null.
NoComment == 0

\* users.role: u3 is the administrator.
RoleOf(u) == CASE u = "u3" -> "ADMIN" [] u = "u2" -> "BLOCKED" [] OTHER -> "USER"

\* z.string().cuid() on a field that is present.
IsCuid(s) == s \notin {Absent, NotCuid, ""}

\* The Snippet table; no handler of the model writes it.
Snippets == { [id |-> "s1", authorId |-> "u2", isPublic |-> TRUE] }

ReportReasons  == {"SPAM", "HARASSMENT", "INAPPROPRIATE_CONTENT", "COPYRIGHT_VIOLATION",
                   "FAKE_ACCOUNT", "OTHER"}
ReportStatuses == {"PENDING", "REVIEWED", "RESOLVED", "DISMISSED"}
ContentTypes   == {"snippet", "doc", "bug", "comment"}
DescMaxLen     == 500

InFlight      == BagCardinality(reqs)
InFlightOf(o) == BagCardinality([r \in {x \in BagToSet(reqs) : x.op = o} |-> reqs[r]])
Suspended(r)  == reqs (+) SetToBag({r})
Resumed(r)    == reqs (-) SetToBag({r})

\* res.status(status).json(body), with what the handler had read (`pre`).
Reply(op, caller, arg, status, body, pre) ==
    [op |-> op, caller |-> caller, arg |-> arg, status |-> status, body |-> body,
     pre |-> pre]

(***************************************************************************)
(* notificationService.createNotification persists one Notification row.   *)
(***************************************************************************)
CreateNotification(row) == notifs (+) SetToBag({row})

\* socket.ts getIO(): throws unless initializeSocket has run.
GetIOThrows == ~ioReady

\* The store calls a run may let fail: the insert of a Notification row and
\* the lookup of an author's followers.
Faults == {"notification.create", "follow.findMany"}

\* notificationService.createNotification rejects.
NotificationThrows == "notification.create" \in failing

\* getIO().to(room).emit(event, payload)
Emission(room, event, from, commentId) ==
    [room |-> room, event |-> event, from |-> from, commentId |-> commentId]

Emitted(room, event, from) == emitted (+) SetToBag({Emission(room, event, from, NoComment)})

\* io.to(room).emit('new_comment', comment): the payload is the comment row,
\* here its author and its id.
EmittedComment(room, authorId, commentId) ==
    emitted (+) SetToBag({Emission(room, "new_comment", authorId, commentId)})

(***************************************************************************)
(* followController.ts                                                     *)
(***************************************************************************)
FollowUsers == {"u1", "u2"}

FollowRowsNone(a, b) == {}
FollowRows(a, b) == {f \in follows : f.followerId = a /\ f.followingId = b}

\* The completed call by a on b is counted.
Flipped(a, b) ==
    IF << a, b >> \in DOMAIN hist /\ a # b
    THEN [hist EXCEPT ![<< a, b >>].flips = 1 - @]
    ELSE hist

SelfFollowNoCheck(u, t) == FALSE
SelfFollow(u, t) == u = t

\* toggleFollow up to its first await resolved: self check, target lookup.
ToggleFollowBegin(u, t) ==
    LET arg == [userId |-> t] IN
    /\ InFlight < MaxInFlight
    /\ followSeq + InFlightOf("toggleFollow") < MaxFollowRows
    /\ IF SelfFollow(u, t)
       THEN /\ out' = Reply("toggleFollow", u, arg, 400, [error |-> "Cannot follow yourself"], follows)
            /\ reqs' = reqs
       ELSE IF t \notin Users
       THEN /\ out' = Reply("toggleFollow", u, arg, 404, [error |-> "User not found"], follows)
            /\ reqs' = reqs
       ELSE /\ reqs' = Suspended([op |-> "toggleFollow", caller |-> u, arg |-> arg,
                                  pc |-> "find", loc |-> [existing |-> 0]])
            /\ out' = NoOut
    /\ UNCHANGED << sockVars, focus, liveVars, followVars, modVars, contentVars, now, accounts, procs >>

\* prisma.follow.findUnique on the pair.
ToggleFollowFind(r) ==
    LET rows == FollowRows(r.caller, r.arg.userId) IN
    /\ BagIn(r, reqs) /\ r.op = "toggleFollow" /\ r.pc = "find"
    /\ reqs' = Suspended([r EXCEPT !.pc = "write",
                                   !.loc = [existing |-> IF rows = {} THEN 0
                                            ELSE (CHOOSE f \in rows : TRUE).id]])
              (-) SetToBag({r})
    /\ out' = NoOut
    /\ UNCHANGED << sockVars, focus, liveVars, followVars, modVars, contentVars, now, accounts, procs >>

\* The branch on existingFollow: delete the row read and answer, or create
\* the row and go on to the notification.  A delete of a row that is gone
\* and a duplicate pair make prisma throw, which the catch answers with 500.
ToggleFollowWrite(r) ==
    LET u == r.caller
        t == r.arg.userId
    IN
    /\ BagIn(r, reqs) /\ r.op = "toggleFollow" /\ r.pc = "write"
    /\ IF r.loc.existing # 0
       THEN /\ reqs' = Resumed(r)
            /\ hist' = Flipped(u, t)
            /\ followSeq' = followSeq
            /\ IF \E f \in follows : f.id = r.loc.existing
               THEN /\ follows' = {f \in follows : f.id # r.loc.existing}
                    /\ out' = Reply("toggleFollow", u, r.arg, 200, [following |-> FALSE], follows)
               ELSE /\ follows' = follows
                    /\ out' = Reply("toggleFollow", u, r.arg, 500,
                                    [error |-> "Internal server error"], follows)
       ELSE IF FollowRows(u, t) # {}
       THEN /\ reqs' = Resumed(r)
            /\ hist' = Flipped(u, t)
            /\ UNCHANGED << follows, followSeq >>
            /\ out' = Reply("toggleFollow", u, r.arg, 500,
                            [error |-> "Internal server error"], follows)
       ELSE /\ follows' = follows \cup
                   {[id |-> followSeq + 1, followerId |-> u, followingId |-> t]}
            /\ followSeq' = followSeq + 1
            /\ hist' = [hist EXCEPT ![<< u, t >>].created = @ + 1]
            /\ reqs' = Suspended([r EXCEPT !.pc = "notify"]) (-) SetToBag({r})
            /\ out' = NoOut
    /\ UNCHANGED << sockVars, focus, liveVars, notifs, modVars, contentVars, now, accounts, procs >>

\* The notification a new follow records.
FollowNotificationSwapped(u, t) ==
    [type |-> "FOLLOW", recipientId |-> u, senderId |-> t, commentId |-> NoComment]
FollowNotification(u, t) ==
    [type |-> "FOLLOW", recipientId |-> t, senderId |-> u, commentId |-> NoComment]

\* await notificationService.createNotification(...)
ToggleFollowNotify(r) ==
    /\ BagIn(r, reqs) /\ r.op = "toggleFollow" /\ r.pc = "notify"
    /\ IF NotificationThrows
       THEN /\ notifs' = notifs
            /\ reqs' = Resumed(r)
            /\ hist' = Flipped(r.caller, r.arg.userId)
            /\ out' = Reply("toggleFollow", r.caller, r.arg, 500,
                            [error |-> "Internal server error"], follows)
       ELSE /\ notifs' = CreateNotification(FollowNotification(r.caller, r.arg.userId))
            /\ reqs' = Suspended([r EXCEPT !.pc = "emit"]) (-) SetToBag({r})
            /\ hist' = hist
            /\ out' = NoOut
    /\ UNCHANGED << sockVars, focus, liveVars, follows, followSeq, modVars, contentVars, now, accounts, procs >>

\* getIO().to(followingId).emit('new-follower', ...) and the answer.
ToggleFollowEmit(r) ==
    LET u == r.caller
        t == r.arg.userId
    IN
    /\ BagIn(r, reqs) /\ r.op = "toggleFollow" /\ r.pc = "emit"
    /\ reqs' = Resumed(r)
    /\ hist' = Flipped(u, t)
    /\ IF GetIOThrows
       THEN /\ emitted' = emitted
            /\ out' = Reply("toggleFollow", u, r.arg, 500,
                            [error |-> "Internal server error"], follows)
       ELSE /\ emitted' = Emitted(t, "new-follower", u)
            /\ out' = Reply("toggleFollow", u, r.arg, 200, [following |-> TRUE], follows)
    /\ UNCHANGED << sockVars, focus, ioReady, failing, follows, followSeq, notifs, modVars,
                    contentVars, now, accounts, procs >>


\* The user at the client end of each connection.  The handshake carries no
\* identity: the server keeps nothing of it.
OwnerOf(c) == IF c = "s1" THEN "u1" ELSE "u2"

\* io.to(room).emit(...): the connections an event for `room` is sent to.
Recipients(room) == {c \in Conns : conns[c].status = "open" /\ room \in conns[c].rooms}

(***************************************************************************)
(* moderationController.ts                                                 *)
(***************************************************************************)
BlockRows(u, t) == {b \in blocks : b.blockerId = u /\ b.blockedId = t}

\* blockSchema.parse(req.body)
BlockBodyValid(t) == IsCuid(t)

SelfBlock(u, t) == t = u

\* toggleBlock up to its first await resolved: parse, self check, findFirst.
ToggleBlockBegin(u, t) ==
    /\ InFlight < MaxInFlight
    /\ blockSeq + InFlightOf("toggleBlock") < MaxBlockRows
    /\ IF ~BlockBodyValid(t)
       THEN /\ out' = Reply("toggleBlock", u, [userId |-> t], 500,
                            [error |-> "Failed to toggle block status"], blocks)
            /\ reqs' = reqs
       ELSE IF SelfBlock(u, t)
       THEN /\ out' = Reply("toggleBlock", u, [userId |-> t], 400,
                            [error |-> "Cannot block yourself"], blocks)
            /\ reqs' = reqs
       ELSE /\ reqs' = Suspended([op |-> "toggleBlock", caller |-> u, arg |-> [userId |-> t],
                                  pc |-> "write",
                                  loc |-> [existing |-> IF BlockRows(u, t) = {} THEN 0
                                           ELSE (CHOOSE b \in BlockRows(u, t) : TRUE).id]])
            /\ out' = NoOut
    /\ UNCHANGED << sockVars, focus, liveVars, followVars, modVars, contentVars, now, accounts, procs >>

\* toggleBlock from findFirst's result on: delete the row read, or create one.
\* delete of a row that is gone, a duplicate pair and a blocked id of no user
\* make prisma throw, which the catch answers with 500.
ToggleBlockWrite(r) ==
    LET u == r.caller
        t == r.arg.userId
    IN
    /\ BagIn(r, reqs) /\ r.op = "toggleBlock" /\ r.pc = "write"
    /\ reqs' = Resumed(r)
    /\ IF r.loc.existing # 0
       THEN IF \E b \in blocks : b.id = r.loc.existing
            THEN /\ blocks' = {b \in blocks : b.id # r.loc.existing}
                 /\ blockSeq' = blockSeq
                 /\ out' = Reply("toggleBlock", u, r.arg, 200, [isBlocked |-> FALSE], blocks)
            ELSE /\ UNCHANGED << blocks, blockSeq >>
                 /\ out' = Reply("toggleBlock", u, r.arg, 500,
                                 [error |-> "Failed to toggle block status"], blocks)
       ELSE IF BlockRows(u, t) # {} \/ t \notin Users
            THEN /\ UNCHANGED << blocks, blockSeq >>
                 /\ out' = Reply("toggleBlock", u, r.arg, 500,
                                 [error |-> "Failed to toggle block status"], blocks)
            ELSE /\ blocks' = blocks \cup {[id |-> blockSeq + 1, blockerId |-> u, blockedId |-> t]}
                 /\ blockSeq' = blockSeq + 1
                 /\ out' = Reply("toggleBlock", u, r.arg, 200, [isBlocked |-> TRUE], blocks)
    /\ UNCHANGED << sockVars, focus, liveVars, followVars, reports, reportSeq, contentVars, now, accounts, procs >>

\* checkBlockStatus: findFirst of the pair (caller, userId).
CheckBlockStatus(u, t) ==
    /\ out' = Reply("checkBlockStatus", u, [userId |-> t], 200,
                    [isBlocked |-> BlockRows(u, t) # {}], blocks)
    /\ UNCHANGED << sockVars, focus, httpVars >>

\* reportSchema.parse(req.body)
ReportBodyValid(b) ==
    /\ b.reportedUserId = Absent \/ IsCuid(b.reportedUserId)
    /\ b.reason \in ReportReasons
    /\ b.descLen <= DescMaxLen
    /\ b.contentType = Absent \/ b.contentType \in ContentTypes
    /\ b.contentId = Absent \/ IsCuid(b.contentId)

\* prisma[contentType].findUnique({ where: { id }, select: { authorId } })?.authorId
ContentAuthor(kind, id) ==
    LET table == CASE kind = "doc"     -> docs
                   [] kind = "bug"     -> bugs
                   [] kind = "comment" -> comments
                   [] kind = "snippet" -> Snippets
        rows  == {x \in table : x.id = id}
    IN IF rows = {} THEN Absent ELSE (CHOOSE x \in rows : TRUE).authorId

SelfReport(u, b) == b.reportedUserId # Absent /\ b.reportedUserId = u

OwnContent(u, author) == author # Absent /\ author = u

\* createReport up to its first await resolved: parse, self check, and, for a
\* report on content, the lookup of the content's author and what follows it.
CreateReportBegin(u, b) ==
    LET arg    == b
        author == ContentAuthor(b.contentType, b.contentId)
        final  == IF author # Absent THEN author ELSE b.reportedUserId
        bad(status, msg) == /\ out' = Reply("createReport", u, arg, status, [error |-> msg], reports)
                            /\ reqs' = reqs
        go(reportedId, kind, contentId) ==
            /\ reqs' = Suspended([op |-> "createReport", caller |-> u, arg |-> arg, pc |-> "create",
                                  loc |-> [reportedId |-> reportedId, kind |-> kind,
                                           contentId |-> contentId]])
            /\ out' = NoOut
    IN
    /\ InFlight < MaxInFlight
    /\ reportSeq + InFlightOf("createReport") < MaxReports
    /\ IF ~ReportBodyValid(b) THEN bad(500, "Failed to submit report")
       ELSE IF SelfReport(u, b) THEN bad(400, "Cannot report yourself")
       ELSE IF b.contentType # Absent /\ b.contentId # Absent
       THEN IF OwnContent(u, author) THEN bad(400, "Cannot report your own content")
            ELSE IF final = Absent THEN bad(400, "A reported user ID is required")
            ELSE go(final, b.contentType, b.contentId)
       ELSE IF b.reportedUserId = Absent THEN bad(400, "A reported user ID is required")
       ELSE go(b.reportedUserId, Absent, Absent)
    /\ UNCHANGED << sockVars, focus, liveVars, followVars, modVars, contentVars, now, accounts, procs >>

\* prisma.report.create: the reported user and the content must exist
\* (foreign keys); the new row has the default status PENDING.
CreateReportWrite(r) ==
    LET l == r.loc IN
    /\ BagIn(r, reqs) /\ r.op = "createReport" /\ r.pc = "create"
    /\ reqs' = Resumed(r)
    /\ IF \/ l.reportedId \notin Users
          \/ l.kind # Absent /\ ContentAuthor(l.kind, l.contentId) = Absent
       THEN /\ UNCHANGED << reports, reportSeq >>
            /\ out' = Reply("createReport", r.caller, r.arg, 500,
                            [error |-> "Failed to submit report"], reports)
       ELSE /\ reports' = reports \cup
                   {[id |-> reportSeq + 1, reporterId |-> r.caller, reportedId |-> l.reportedId,
                     kind |-> l.kind, contentId |-> l.contentId, status |-> "PENDING"]}
            /\ reportSeq' = reportSeq + 1
            /\ out' = Reply("createReport", r.caller, r.arg, 201,
                            [report |-> reportSeq + 1], reports)
    /\ UNCHANGED << sockVars, focus, liveVars, followVars, blocks, blockSeq, contentVars, now, accounts, procs >>

AdminCheckNone(role) == FALSE
NotAdmin(role) == role # "ADMIN"

\* updateReportStatus: role check, parse of the status, prisma.report.update.
UpdateReportStatus(u, reportId, status) ==
    LET arg == [reportId |-> reportId, status |-> status]
        say(code, body) == out' = Reply("updateReportStatus", u, arg, code, body, reports)
    IN
    /\ IF NotAdmin(RoleOf(u))
       THEN say(403, [error |-> "Access denied"]) /\ reports' = reports
       ELSE IF status \notin ReportStatuses \/ ~\E x \in reports : x.id = reportId
       THEN say(500, [error |-> "Failed to update report status"]) /\ reports' = reports
       ELSE /\ reports' = {IF x.id = reportId THEN [x EXCEPT !.status = status] ELSE x
                           : x \in reports}
            /\ say(200, [report |-> reportId])
    /\ UNCHANGED << sockVars, focus, liveVars, followVars, blocks, blockSeq, reportSeq,
                    contentVars, now, accounts, procs, reqs >>

\* Bodies a client sends to createReport.
ReportTargets == { [contentType |-> Absent, contentId |-> Absent],
                   [contentType |-> "doc", contentId |-> "d1"],
                   [contentType |-> "doc", contentId |-> GhostDoc],
                   [contentType |-> "bug", contentId |-> "b1"],
                   [contentType |-> "doc", contentId |-> Absent] }

ReportBodies ==
    { [reportedUserId |-> ru, reason |-> "SPAM", descLen |-> 10,
       contentType |-> t.contentType, contentId |-> t.contentId]
      : ru \in {Absent, "u1", "u2", GhostUser}, t \in ReportTargets }
    \cup
    { [reportedUserId |-> "u1", reason |-> "BOGUS", descLen |-> 10,
       contentType |-> Absent, contentId |-> Absent],
      [reportedUserId |-> "u1", reason |-> "SPAM", descLen |-> 501,
       contentType |-> Absent, contentId |-> Absent],
      [reportedUserId |-> NotCuid, reason |-> "SPAM", descLen |-> 10,
       contentType |-> Absent, contentId |-> Absent],
      [reportedUserId |-> "u1", reason |-> "SPAM", descLen |-> 10,
       contentType |-> "post", contentId |-> "d1"],
      [reportedUserId |-> "u1", reason |-> "SPAM", descLen |-> 10,
       contentType |-> "doc", contentId |-> NotCuid] }


(***************************************************************************)
(* docController.ts                                                        *)
(***************************************************************************)
\* A request without a session: req.user is undefined.
Anon == "anon"

\* What a handler's reply is compared with: the content tables and what has
\* been recorded and broadcast.
Tables ==
    [docs |-> docs, bugs |-> bugs, comments |-> comments, likes |-> likes,
     bookmarks |-> bookmarks, notifs |-> notifs, emitted |-> emitted]

DocRows(id) == {d \in docs : d.id = id}

\* docSchema.parse(req.body): title and content are not empty.
DocBodyValid(b) == b.titleLen >= 1 /\ b.titleLen <= 255 /\ b.contentLen >= 1

\* (req.user as any)?.id
CurrentUserId(caller) == IF caller = Anon THEN Absent ELSE caller

\* getDocById's visibility check.
Hidden(doc, currentUserId) == ~doc.isPublic /\ doc.authorId # currentUserId

\* GET /api/docs/:id
GetDocById(caller, id) ==
    LET arg == [id |-> id]
        say(status, body) == out' = Reply("getDocById", caller, arg, status, body, Tables)
    IN
    /\ IF DocRows(id) = {}
       THEN say(404, [message |-> "Document not found"])
       ELSE LET doc == CHOOSE d \in DocRows(id) : TRUE IN
            IF Hidden(doc, CurrentUserId(caller))
            THEN say(403, [message |-> "Access denied to this document"])
            ELSE say(200, [doc |-> doc])
    /\ UNCHANGED << sockVars, focus, httpVars >>

\* The ownership check of updateDoc and deleteDoc.
NotOwnerNoCheck(doc, userId) == FALSE
NotOwner(doc, userId) == doc.authorId # userId

\* How a request ends that does not reach the handler's lookup.  Without a
\* session the route's requireAuth answers 401 or, where it is not mounted,
\* reading req.user.id throws; a body that fails docSchema throws a ZodError.
\* What is thrown goes through asyncHandler to the error handler, which
\* answers a ZodError with 400 or 500 and anything else with 500.
EarlyStatuses(caller, bodyValid) ==
    (IF caller = Anon THEN {401, 500} ELSE {}) \cup (IF bodyValid THEN {} ELSE {400, 500})

\* updateDoc up to its first await resolved: parse, user id, findUnique and
\* the two checks.
UpdateDocFind(caller, id, b) ==
    LET arg == [id |-> id, body |-> b]
        say(status, body) == /\ out' = Reply("updateDoc", caller, arg, status, body, Tables)
                             /\ reqs' = reqs
    IN
    /\ InFlight < MaxInFlight
    /\ IF EarlyStatuses(caller, DocBodyValid(b)) # {}
       THEN \E st \in EarlyStatuses(caller, DocBodyValid(b)) : say(st, [message |-> "error"])
       ELSE IF DocRows(id) = {}
       THEN say(404, [message |-> "Document not found"])
       ELSE IF NotOwner(CHOOSE d \in DocRows(id) : TRUE, caller)
       THEN say(403, [message |-> "Not authorized to update this document"])
       ELSE /\ reqs' = Suspended([op |-> "updateDoc", caller |-> caller, arg |-> arg,
                                  pc |-> "update", loc |-> [existing |-> 0]])
            /\ out' = NoOut
    /\ UNCHANGED << sockVars, focus, liveVars, followVars, modVars, contentVars, now, accounts, procs >>

\* prisma.doc.update: throws if the row is gone.
UpdateDocWrite(r) ==
    LET id == r.arg.id
        b  == r.arg.body
    IN
    /\ BagIn(r, reqs) /\ r.op = "updateDoc" /\ r.pc = "update"
    /\ reqs' = Resumed(r)
    /\ IF DocRows(id) = {}
       THEN /\ docs' = docs
            /\ out' = Reply("updateDoc", r.caller, r.arg, 500, [message |-> "error"], Tables)
       ELSE /\ docs' = {IF d.id = id THEN [d EXCEPT !.isPublic = b.isPublic, !.content = b.content]
                        ELSE d : d \in docs}
            /\ out' = Reply("updateDoc", r.caller, r.arg, 200, [doc |-> id], Tables)
    /\ UNCHANGED << sockVars, focus, liveVars, followVars, modVars, bugs, comments, commentSeq,
                    likes, bookmarks, now, accounts, procs >>

\* deleteDoc up to its first await resolved: user id, findUnique, the checks.
DeleteDocFind(caller, id) ==
    LET arg == [id |-> id]
        say(status, body) == /\ out' = Reply("deleteDoc", caller, arg, status, body, Tables)
                             /\ reqs' = reqs
    IN
    /\ InFlight < MaxInFlight
    /\ IF EarlyStatuses(caller, TRUE) # {}
       THEN \E st \in EarlyStatuses(caller, TRUE) : say(st, [message |-> "error"])
       ELSE IF DocRows(id) = {}
       THEN say(404, [message |-> "Document not found"])
       ELSE IF NotOwner(CHOOSE d \in DocRows(id) : TRUE, caller)
       THEN say(403, [message |-> "Not authorized to delete this document"])
       ELSE /\ reqs' = Suspended([op |-> "deleteDoc", caller |-> caller, arg |-> arg,
                                  pc |-> "tx", loc |-> [existing |-> 0]])
            /\ out' = NoOut
    /\ UNCHANGED << sockVars, focus, liveVars, followVars, modVars, contentVars, now, accounts, procs >>

\* The comments that go when the comments in `gone` go: their replies
\* (Comment.parent, onDelete: Cascade), and the replies of those.
RECURSIVE WithReplies(_, _)
WithReplies(cs, gone) ==
    LET more == {c \in cs : c.id \notin gone /\ c.parentId \in gone} IN
    IF more = {} THEN gone ELSE WithReplies(cs, gone \cup {c.id : c \in more})

\* Notification.comment, onDelete: Cascade.
NotifsWithout(gone) ==
    [n \in {x \in BagToSet(notifs) : x.commentId \notin gone} |-> notifs[n]]

\* deleteMany({ where: { docId: id } }) on likes, comments or bookmarks.
DeleteManyKeepsAll(rows, id) == rows
DeleteMany(rows, id) == {x \in rows : x.docId # id}

\* The transaction of deleteDoc: likes, comments, bookmarks and the doc go
\* together, or, if doc.delete finds no row, nothing goes.
DeleteDocTx(r) ==
    LET id   == r.arg.id
        gone == WithReplies(comments, {c.id : c \in comments \ DeleteMany(comments, id)})
    IN
    /\ BagIn(r, reqs) /\ r.op = "deleteDoc" /\ r.pc = "tx"
    /\ reqs' = Resumed(r)
    /\ IF DocRows(id) = {}
       THEN /\ UNCHANGED << docs, comments, likes, bookmarks, notifs >>
            /\ out' = Reply("deleteDoc", r.caller, r.arg, 500, [message |-> "error"], Tables)
       ELSE /\ likes' = DeleteMany(likes, id)
            /\ comments' = {c \in DeleteMany(comments, id) : c.id \notin gone}
            /\ bookmarks' = DeleteMany(bookmarks, id)
            /\ docs' = docs \ DocRows(id)
            /\ notifs' = NotifsWithout(gone)
            /\ out' = Reply("deleteDoc", r.caller, r.arg, 200,
                            [message |-> "Document deleted successfully"], Tables)
    /\ UNCHANGED << sockVars, focus, liveVars, follows, followSeq, hist, modVars, bugs,
                    commentSeq, now, accounts, procs >>

\* The id prisma gives the next new Doc row.
NewDocId == "d3"

\* emitToFollowers' catch block: the error is logged, nothing is thrown on.
Rethrown(error) == "threw"
Caught(error) == "logged"

\* emitToFollowers' check of its arguments.
Falsy(x) == x = Absent \/ x = ""
MissingArgument(authorId, eventName, payload) ==
    Falsy(authorId) \/ Falsy(eventName) \/ Falsy(payload)

\* The call emitToFollowers(authorId, eventName, payload) up to its await of
\* the follower lookup: the bag of suspended calls after it.
EmitToFollowersStarted(bag, authorId, eventName, payload) ==
    IF MissingArgument(authorId, eventName, payload) THEN bag
    ELSE bag (+) SetToBag({[op |-> "emitToFollowers", caller |-> authorId,
                            arg |-> [authorId |-> authorId, eventName |-> eventName,
                                     payload |-> payload],
                            pc |-> "lookup", loc |-> [existing |-> 0]]})

\* emitToFollowers called by a controller.
EmitToFollowersCall(authorId, eventName, payload) ==
    /\ InFlight < MaxInFlight
    /\ BagCardinality(emitted) + InFlightOf("emitToFollowers") < MaxEmits
    /\ reqs' = EmitToFollowersStarted(reqs, authorId, eventName, payload)
    /\ out' = IF MissingArgument(authorId, eventName, payload)
              THEN [op |-> "emitToFollowers", result |-> "warned",
                    arg |-> [authorId |-> authorId, eventName |-> eventName,
                             payload |-> payload], pre |-> emitted]
              ELSE NoOut
    /\ UNCHANGED << sockVars, focus, liveVars, followVars, modVars, contentVars, now, accounts, procs >>

\* The rooms an event of this author goes to: each follower's and the author's.
FollowerRoomsOnly(authorId) ==
    [room \in {f.followerId : f \in {x \in follows : x.followingId = authorId}} |->
        Cardinality({f \in follows : f.followingId = authorId /\ f.followerId = room})]

FollowerRooms(authorId) ==
    [room \in {f.followerId : f \in {x \in follows : x.followingId = authorId}}
              \cup {authorId} |->
        Cardinality({f \in follows : f.followingId = authorId /\ f.followerId = room})
        + (IF room = authorId THEN 1 ELSE 0)]

\* emitToFollowers from the follower lookup on: findMany, getIO, the emits;
\* whatever is thrown is caught and logged.
EmitToFollowersLookup(t) ==
    LET a     == t.arg.authorId
        rooms == FollowerRooms(a)
        done(result) == out' = [op |-> "emitToFollowers", result |-> result, arg |-> t.arg,
                                pre |-> emitted]
    IN
    /\ BagIn(t, reqs) /\ t.op = "emitToFollowers" /\ t.pc = "lookup"
    /\ reqs' = Resumed(t)
    /\ IF "follow.findMany" \in failing
       THEN emitted' = emitted /\ done(Caught("follow.findMany"))
       ELSE IF GetIOThrows
       THEN emitted' = emitted /\ done(Caught("getIO"))
       ELSE /\ emitted' = emitted (+)
                   [e \in {Emission(x, t.arg.eventName, a, NoComment)
                           : x \in DOMAIN rooms} |-> rooms[e.room]]
            /\ done("emitted")
    /\ UNCHANGED << sockVars, focus, ioReady, failing, followVars, modVars, contentVars, now, accounts, procs >>

\* createDoc up to its await of doc.create: parse, user id.
CreateDocBegin(caller, b) ==
    LET say(status, body) == /\ out' = Reply("createDoc", caller, b, status, body, Tables)
                             /\ reqs' = reqs
    IN
    /\ InFlight < MaxInFlight
    /\ DocRows(NewDocId) = {}
    /\ InFlightOf("createDoc") = 0
    /\ IF EarlyStatuses(caller, DocBodyValid(b)) # {}
       THEN \E st \in EarlyStatuses(caller, DocBodyValid(b)) : say(st, [message |-> "error"])
       ELSE /\ reqs' = Suspended([op |-> "createDoc", caller |-> caller, arg |-> b,
                                  pc |-> "create", loc |-> [existing |-> 0]])
            /\ out' = NoOut
    /\ UNCHANGED << sockVars, focus, liveVars, followVars, modVars, contentVars, now, accounts, procs >>

\* if (newDoc.isPublic)
PushedAlways(doc) == TRUE
PushedToFeed(doc) == doc.isPublic

\* The new row is there; a public doc is handed to emitToFollowers, which is
\* not awaited; the answer is 201 with the doc.
CreateDocWrite(r) ==
    LET doc == [id |-> NewDocId, authorId |-> r.caller, isPublic |-> r.arg.isPublic,
                content |-> r.arg.content]
    IN
    /\ BagIn(r, reqs) /\ r.op = "createDoc" /\ r.pc = "create"
    /\ docs' = docs \cup {doc}
    /\ reqs' = IF PushedToFeed(doc)
               THEN EmitToFollowersStarted(Resumed(r), r.caller, "new-doc", doc.id)
               ELSE Resumed(r)
    /\ out' = Reply("createDoc", r.caller, r.arg, 201, [doc |-> doc], Tables)
    /\ UNCHANGED << sockVars, focus, liveVars, followVars, modVars, bugs, comments, commentSeq,
                    likes, bookmarks, now, accounts, procs >>

\* Bodies a client sends to updateDoc.
DocBodies ==
    { [titleLen |-> 1, contentLen |-> 1, content |-> "b", isPublic |-> TRUE],
      [titleLen |-> 1, contentLen |-> 1, content |-> "a", isPublic |-> FALSE],
      [titleLen |-> 1, contentLen |-> 0, content |-> "", isPublic |-> TRUE] }

(***************************************************************************)
(* commentController.ts                                                    *)
(***************************************************************************)
ContentMaxLen == 1000

\* filter(Boolean) keeps an id that is present and not the empty string.
Given(id) == id # Absent /\ id # ""

TargetCount(b) == Cardinality({k \in {"snippetId", "docId", "bugId"} : Given(b[k])})

\* commentSchema.parse(req.body)
CommentBodyValid(b) ==
    /\ b.contentLen >= 1 /\ b.contentLen <= ContentMaxLen
    /\ TargetCount(b) = 1

BugRows(id) == {x \in bugs : x.id = id}
SnippetRows(id) == {x \in Snippets : x.id = id}

\* bug.expiresAt < new Date()
ExpiredNever(bug, t) == FALSE
Expired(bug, t) == bug.expiresAt < t

\* createComment up to its first await resolved: parse, sender, and the
\* lookup and checks of the one target that is given.
CreateCommentBegin(caller, b) ==
    LET say(status, body) == /\ out' = Reply("createComment", caller, b, status, body, Tables)
                             /\ reqs' = reqs
        go(author, contentId) ==
            /\ reqs' = Suspended([op |-> "createComment", caller |-> caller, arg |-> b,
                                  pc |-> "insert",
                                  loc |-> [author |-> author, contentId |-> contentId,
                                           commentId |-> 0]])
            /\ out' = NoOut
    IN
    /\ InFlight < MaxInFlight
    /\ commentSeq + InFlightOf("createComment") < MaxComments
    /\ IF ~CommentBodyValid(b) THEN say(400, [error |-> "Invalid data"])
       ELSE IF Given(b.snippetId)
       THEN IF SnippetRows(b.snippetId) = {} THEN say(404, [error |-> "Snippet not found"])
            ELSE LET s == CHOOSE x \in SnippetRows(b.snippetId) : TRUE IN
                 IF ~s.isPublic THEN say(403, [error |-> "Cannot comment on private snippet"])
                 ELSE go(s.authorId, s.id)
       ELSE IF Given(b.docId)
       THEN IF DocRows(b.docId) = {} THEN say(404, [error |-> "Doc not found"])
            ELSE LET d == CHOOSE x \in DocRows(b.docId) : TRUE IN
                 IF ~d.isPublic THEN say(403, [error |-> "Cannot comment on private doc"])
                 ELSE go(d.authorId, d.id)
       ELSE IF BugRows(b.bugId) = {} THEN say(404, [error |-> "Bug not found"])
            ELSE LET g == CHOOSE x \in BugRows(b.bugId) : TRUE IN
                 IF Expired(g, now) THEN say(410, [error |-> "Bug report has expired"])
                 ELSE go(g.authorId, g.id)
    /\ UNCHANGED << sockVars, focus, liveVars, followVars, modVars, contentVars, now, accounts, procs >>

\* The text of a body of the given length.
BodyText(b) == IF b.contentLen = 0 THEN "" ELSE "a"

\* The foreign keys of a Comment row: each id that is set names a row.
ForeignKeysHold(b) ==
    /\ b.snippetId = Absent \/ SnippetRows(b.snippetId) # {}
    /\ b.docId = Absent \/ DocRows(b.docId) # {}
    /\ b.bugId = Absent \/ BugRows(b.bugId) # {}
    /\ b.parentId = NoComment \/ \E c \in comments : c.id = b.parentId

\* prisma.comment.create({ data: { ...validatedData, authorId } }); a broken
\* foreign key makes it throw, which the catch answers with 500.
CreateCommentInsert(r) ==
    LET b  == r.arg
        id == commentSeq + 1
    IN
    /\ BagIn(r, reqs) /\ r.op = "createComment" /\ r.pc = "insert"
    /\ IF ~ForeignKeysHold(b)
       THEN /\ reqs' = Resumed(r)
            /\ UNCHANGED << comments, commentSeq >>
            /\ out' = Reply("createComment", r.caller, b, 500,
                            [error |-> "Internal server error"], Tables)
       ELSE /\ comments' = comments \cup
                   {[id |-> id, authorId |-> r.caller, snippetId |-> b.snippetId,
                     docId |-> b.docId, bugId |-> b.bugId, parentId |-> b.parentId,
                     content |-> BodyText(b)]}
            /\ commentSeq' = id
            /\ reqs' = Suspended([r EXCEPT !.pc = IF r.loc.author # r.caller THEN "notify"
                                                  ELSE "emit",
                                           !.loc.commentId = id]) (-) SetToBag({r})
            /\ out' = NoOut
    /\ UNCHANGED << sockVars, focus, liveVars, followVars, modVars, docs, bugs, likes,
                    bookmarks, now, accounts, procs >>

\* The notification a comment records for the content's author.
CommentNotificationPlain(r) ==
    [type |-> "COMMENT",
     recipientId |-> r.loc.author, senderId |-> r.caller, commentId |-> r.loc.commentId]

CommentNotification(r) ==
    [type |-> IF r.arg.parentId # NoComment THEN "REPLY" ELSE "COMMENT",
     recipientId |-> r.loc.author, senderId |-> r.caller, commentId |-> r.loc.commentId]

\* await notificationService.createNotification(...); the row refers to the
\* comment, which must still be there.
CreateCommentNotify(r) ==
    /\ BagIn(r, reqs) /\ r.op = "createComment" /\ r.pc = "notify"
    /\ IF ~NotificationThrows /\ \E c \in comments : c.id = r.loc.commentId
       THEN /\ notifs' = CreateNotification(CommentNotification(r))
            /\ reqs' = Suspended([r EXCEPT !.pc = "emit"]) (-) SetToBag({r})
            /\ out' = NoOut
       ELSE /\ notifs' = notifs
            /\ reqs' = Resumed(r)
            /\ out' = Reply("createComment", r.caller, r.arg, 500,
                            [error |-> "Internal server error"], Tables)
    /\ UNCHANGED << sockVars, focus, liveVars, follows, followSeq, hist, modVars,
                    contentVars, now, accounts, procs >>

\* getIO().to(contentId).emit('new_comment', comment) and the answer.
CreateCommentEmit(r) ==
    /\ BagIn(r, reqs) /\ r.op = "createComment" /\ r.pc = "emit"
    /\ reqs' = Resumed(r)
    /\ IF GetIOThrows
       THEN /\ emitted' = emitted
            /\ out' = Reply("createComment", r.caller, r.arg, 500,
                            [error |-> "Internal server error"], Tables)
       ELSE /\ emitted' = EmittedComment(r.loc.contentId, r.caller, r.loc.commentId)
            /\ out' = Reply("createComment", r.caller, r.arg, 201,
                            [comment |-> r.loc.commentId], Tables)
    /\ UNCHANGED << sockVars, focus, ioReady, failing, followVars, modVars, contentVars,
                    now, accounts, procs >>

\* The clock moves on.
AdvanceClock ==
    /\ now < MaxTime
    /\ now' = now + 1
    /\ out' = [op |-> "clock"]
    /\ UNCHANGED << sockVars, focus, liveVars, followVars, modVars, contentVars, accounts, procs,
                    reqs >>

\* The hourly job: prisma.bug.deleteMany({ where: { expiresAt: { lt: new Date() } } }),
\* with the comments of the bugs that go and their notifications.
SweepExpiredBugs ==
    LET dead == {g.id : g \in {x \in bugs : Expired(x, now)}}
        gone == WithReplies(comments, {c.id : c \in {x \in comments : x.bugId \in dead}})
    IN
    /\ dead # {}
    /\ bugs' = {g \in bugs : g.id \notin dead}
    /\ comments' = {c \in comments : c.id \notin gone}
    /\ notifs' = NotifsWithout(gone)
    /\ out' = [op |-> "sweep"]
    /\ UNCHANGED << sockVars, focus, liveVars, follows, followSeq, hist, modVars, docs,
                    commentSeq, likes, bookmarks, now, accounts, procs, reqs >>

\* Bodies a client sends to createComment.
CommentTargets ==
    { [snippetId |-> Absent, docId |-> "d1",     bugId |-> Absent],
      [snippetId |-> Absent, docId |-> "d2",     bugId |-> Absent],
      [snippetId |-> Absent, docId |-> GhostDoc, bugId |-> Absent],
      [snippetId |-> Absent, docId |-> Absent,   bugId |-> "b1"],
      [snippetId |-> Absent, docId |-> Absent,   bugId |-> GhostBug],
      [snippetId |-> "s1",   docId |-> Absent,   bugId |-> Absent],
      [snippetId |-> Absent, docId |-> Absent,   bugId |-> Absent],
      [snippetId |-> "",     docId |-> Absent,   bugId |-> Absent],
      [snippetId |-> Absent, docId |-> "d1",     bugId |-> "b1"],
      [snippetId |-> "",     docId |-> "d1",     bugId |-> Absent] }

CommentBodies ==
    { [contentLen |-> 1, snippetId |-> t.snippetId, docId |-> t.docId, bugId |-> t.bugId,
       parentId |-> NoComment] : t \in CommentTargets }
    \cup
    { [contentLen |-> 0, snippetId |-> Absent, docId |-> "d1", bugId |-> Absent,
       parentId |-> NoComment],
      [contentLen |-> 1, snippetId |-> Absent, docId |-> "d1", bugId |-> Absent,
       parentId |-> 1] }

(***************************************************************************)
(* Pagination: validatePagination (authMiddleware) and the list handlers.  *)
(*                                                                         *)
(* A query parameter is absent, a string of digits with an optional sign,  *)
(* or some other text.  A number is [nan |-> FALSE, v |-> n]; NaN is       *)
(* [nan |-> TRUE, v |-> 0].                                                *)
(***************************************************************************)
PageCap      == 50
DefaultPage  == 1
DefaultLimit10 == 10
DefaultLimit20 == 20

NaN    == [nan |-> TRUE, v |-> 0]
Num(n) == [nan |-> FALSE, v |-> n]

QueryValues ==
    { [t |-> "undefined", v |-> 0], [t |-> "text", v |-> 0] }
    \cup { [t |-> "digits", v |-> n] : n \in {-1, 0, 1, 2, 50, 51, 1000} }

\* parseInt(q as string)
ParseInt(q) == IF q.t = "digits" THEN Num(q.v) ELSE NaN

\* n.toString()
NumberToString(n) == [t |-> "digits", v |-> n]

\* x || d : NaN and 0 are falsy.
OrElse(x, d) == IF x.nan \/ x.v = 0 THEN Num(d) ELSE x

\* Math.min(x, cap)
Min(x, cap) == IF x.nan THEN x ELSE IF x.v < cap THEN x ELSE Num(cap)

\* const { page = dflt } = req.query
Defaulted(q, dflt) == IF q.t = "undefined" THEN NumberToString(dflt) ELSE q

\* validatePagination: 400, or the query it passes on.
ValidatePagination(pq, lq) ==
    LET pageNum  == OrElse(ParseInt(pq), DefaultPage)
        limitNum == Min(OrElse(ParseInt(lq), DefaultLimit10), PageCap)
    IN IF pageNum.v < 1 THEN [status |-> 400]
       ELSE IF limitNum.v < 1 \/ limitNum.v > PageCap THEN [status |-> 400]
       ELSE [status |-> 200, page  |-> NumberToString(pageNum.v),
                             limit |-> NumberToString(limitNum.v)]

\* page and limit as getAllDocs, getUserDocs, getBlockedUsers and getReports
\* read them ...
ParsedOrDefault(pq, lq) ==
    [page |-> OrElse(ParseInt(pq), DefaultPage), limit |-> OrElse(ParseInt(lq), DefaultLimit10)]

\* ... and as getComments, getFollowers and getFollowing do.
ParsedBare(pq, lq) ==
    [page  |-> ParseInt(Defaulted(pq, DefaultPage)),
     limit |-> ParseInt(Defaulted(lq, DefaultLimit20))]

\* findMany({ skip: (page - 1) * limit, take: limit }): prisma rejects a skip
\* that is negative or not a number, and a take that is not a number.
ListReply(endpoint, pq, lq, paging) ==
    LET bad == paging.page.nan \/ paging.limit.nan
                   \/ (paging.page.v - 1) * paging.limit.v < 0
    IN [op |-> "list", endpoint |-> endpoint, pageQuery |-> pq, limitQuery |-> lq,
        status |-> IF bad THEN 500 ELSE 200,
        page |-> paging.page.v, limit |-> paging.limit.v]

\* A list handler writes nothing.
Listed == UNCHANGED << sockVars, focus, httpVars >>

\* The reply of GET /api/docs: validatePagination, then getAllDocs.
DocsReply(pq, lq) ==
    LET v == ValidatePagination(pq, lq) IN
    IF v.status = 400
    THEN [op |-> "list", endpoint |-> "docs", pageQuery |-> pq, limitQuery |-> lq,
          status |-> 400, page |-> 0, limit |-> 0]
    ELSE ListReply("docs", pq, lq, ParsedOrDefault(v.page, v.limit))

ListDocs(pq, lq) == out' = DocsReply(pq, lq) /\ Listed

\* GET /api/comments, /api/follows/:userId/followers and /following
ListComments(pq, lq) ==
    out' = ListReply("comments", pq, lq, ParsedBare(pq, lq)) /\ Listed
ListFollowers(pq, lq) ==
    out' = ListReply("followers", pq, lq, ParsedBare(pq, lq)) /\ Listed

\* GET /api/moderation/blocked and /reports (the latter by an admin)
ListBlockedUsers(pq, lq) ==
    out' = ListReply("blocked", pq, lq, ParsedOrDefault(pq, lq)) /\ Listed
ListReports(pq, lq) ==
    out' = ListReply("reports", pq, lq, ParsedOrDefault(pq, lq)) /\ Listed

(***************************************************************************)
(* The GitHub login: the strategy's verify callback (passport config) and  *)
(* githubCallback (authController).                                        *)
(***************************************************************************)
GithubIds == {"g1", "g2"}
NoAccount == [exists |-> FALSE, bio |-> ""]

\* Profiles GitHub sends: the bio may be missing, blank or a text; the
\* account may have no e-mail address.
Profiles ==
    { [bio |-> b, email |-> e] : b \in {Absent, "", "  ", "hi"}, e \in {TRUE, FALSE} }

\* githubProfile.bio ?? ''
BioOf(profile) == IF profile.bio = Absent THEN "" ELSE profile.bio

\* bio.trim()
Trim(str) == IF str = "  " THEN "" ELSE str

\* user.createdAt === user.updatedAt: two Date objects, compared by identity.
SameDate(user) == FALSE

\* githubCallback's isNewUser
IsNewUser(user) == user.bio = "" \/ Trim(user.bio) = "" \/ SameDate(user)

\* What the login ends with: the redirect of githubCallback, or the error
\* the strategy reports.
LoginOut(g, profile, created, result) ==
    [op |-> "githubCallback", githubId |-> g, profile |-> profile, created |-> created,
     result |-> result, pre |-> accounts[g]]

\* The verify callback up to its first await resolved: the profile checks
\* and user.findUnique by githubId.
GithubVerifyFind(g, profile) ==
    /\ InFlight < MaxInFlight
    /\ IF ~profile.email
       THEN /\ out' = LoginOut(g, profile, FALSE, "error")
            /\ reqs' = reqs
       ELSE /\ reqs' = Suspended([op |-> "githubLogin", caller |-> g, arg |-> profile,
                                  pc |-> "upsert", loc |-> [existing |-> accounts[g].exists]])
            /\ out' = NoOut
    /\ UNCHANGED << sockVars, focus, liveVars, followVars, modVars, contentVars, now, accounts, procs >>

\* user.create or user.update with the profile's data, then done(null, user)
\* and githubCallback's redirect.  A create of a githubId that is there by
\* now, and an update of a row that is not, throw.
GithubVerifyWrite(r) ==
    LET g    == r.caller
        user == [exists |-> TRUE, bio |-> BioOf(r.arg)]
    IN
    /\ BagIn(r, reqs) /\ r.op = "githubLogin" /\ r.pc = "upsert"
    /\ reqs' = Resumed(r)
    /\ IF r.loc.existing # accounts[g].exists
       THEN /\ accounts' = accounts
            /\ out' = LoginOut(g, r.arg, FALSE, "error")
       ELSE /\ accounts' = [accounts EXCEPT ![g] = user]
            /\ out' = LoginOut(g, r.arg, ~r.loc.existing,
                               IF IsNewUser(user) THEN "/profile/setup" ELSE "/home")
    /\ UNCHANGED << sockVars, focus, liveVars, followVars, modVars, contentVars, now, procs >>

(***************************************************************************)
(* commentController.ts: updateComment and deleteComment.                  *)
(***************************************************************************)
\* A text over the limit of 1000 characters.
LongText == "long"

\* What a client sends as req.body.content.
Contents == {Absent, "", "  ", "b", LongText}

\* content.length
Length(str) == CASE str = ""       -> 0
                 [] str = "  "     -> 2
                 [] str = LongText -> ContentMaxLen + 1
                 [] OTHER          -> 1

CommentRows(id) == {c \in comments : c.id = id}

\* comment.authorId !== (req.user as any).id
NotAuthorNoCheck(comment, caller) == FALSE
NotAuthor(comment, caller) == comment.authorId # caller

\* updateComment up to its findUnique resolved: the checks of the content,
\* the lookup, the author check.
UpdateCommentFind(caller, id, content) ==
    LET arg == [id |-> id, content |-> content]
        say(status, body) == /\ out' = Reply("updateComment", caller, arg, status, body, Tables)
                             /\ reqs' = reqs
    IN
    /\ InFlight < MaxInFlight
    /\ IF content = Absent \/ content = "" \/ Length(Trim(content)) = 0
       THEN say(400, [error |-> "Content is required"])
       ELSE IF Length(content) > ContentMaxLen
       THEN say(400, [error |-> "Content too long"])
       ELSE IF CommentRows(id) = {}
       THEN say(404, [error |-> "Comment not found"])
       ELSE IF NotAuthor(CHOOSE c \in CommentRows(id) : TRUE, caller)
       THEN say(403, [error |-> "Access denied"])
       ELSE /\ reqs' = Suspended([op |-> "updateComment", caller |-> caller, arg |-> arg,
                                  pc |-> "update", loc |-> [existing |-> 0]])
            /\ out' = NoOut
    /\ UNCHANGED << sockVars, focus, liveVars, followVars, modVars, contentVars, now,
                    accounts, procs >>

\* prisma.comment.update({ where: { id }, data: { content } }): throws if
\* the row is gone.
UpdateCommentWrite(r) ==
    /\ BagIn(r, reqs) /\ r.op = "updateComment" /\ r.pc = "update"
    /\ reqs' = Resumed(r)
    /\ IF CommentRows(r.arg.id) = {}
       THEN /\ comments' = comments
            /\ out' = Reply("updateComment", r.caller, r.arg, 500,
                            [error |-> "Internal server error"], Tables)
       ELSE /\ comments' = {IF c.id = r.arg.id THEN [c EXCEPT !.content = r.arg.content]
                            ELSE c : c \in comments}
            /\ out' = Reply("updateComment", r.caller, r.arg, 200,
                            [comment |-> r.arg.id], Tables)
    /\ UNCHANGED << sockVars, focus, liveVars, followVars, modVars, docs, bugs, commentSeq,
                    likes, bookmarks, now, accounts, procs >>

\* deleteComment up to its findUnique resolved.
DeleteCommentFind(caller, id) ==
    LET arg == [id |-> id]
        say(status, body) == /\ out' = Reply("deleteComment", caller, arg, status, body, Tables)
                             /\ reqs' = reqs
    IN
    /\ InFlight < MaxInFlight
    /\ IF CommentRows(id) = {}
       THEN say(404, [error |-> "Comment not found"])
       ELSE IF NotAuthor(CHOOSE c \in CommentRows(id) : TRUE, caller)
       THEN say(403, [error |-> "Access denied"])
       ELSE /\ reqs' = Suspended([op |-> "deleteComment", caller |-> caller, arg |-> arg,
                                  pc |-> "delete", loc |-> [existing |-> 0]])
            /\ out' = NoOut
    /\ UNCHANGED << sockVars, focus, liveVars, followVars, modVars, contentVars, now,
                    accounts, procs >>

\* prisma.comment.delete({ where: { id } }): throws if the row is gone; the
\* replies of the comment and the notifications of all of them go with it
\* (onDelete: Cascade).  No report of these runs names a comment.
DeleteCommentWrite(r) ==
    LET gone == WithReplies(comments, {r.arg.id}) IN
    /\ BagIn(r, reqs) /\ r.op = "deleteComment" /\ r.pc = "delete"
    /\ reqs' = Resumed(r)
    /\ IF CommentRows(r.arg.id) = {}
       THEN /\ UNCHANGED << comments, notifs >>
            /\ out' = Reply("deleteComment", r.caller, r.arg, 500,
                            [error |-> "Internal server error"], Tables)
       ELSE /\ comments' = {c \in comments : c.id \notin gone}
            /\ notifs' = NotifsWithout(gone)
            /\ out' = Reply("deleteComment", r.caller, r.arg, 200,
                            [message |-> "Comment deleted successfully"], Tables)
    /\ UNCHANGED << sockVars, focus, liveVars, follows, followSeq, hist, modVars, docs, bugs,
                    commentSeq, likes, bookmarks, now, accounts, procs >>

\* The comments on the target a getComments query names: every id that is
\* given must match.
OnTarget(c, q) ==
    /\ Given(q.snippetId) => c.snippetId = q.snippetId
    /\ Given(q.docId) => c.docId = q.docId
    /\ Given(q.bugId) => c.bugId = q.bugId

\* getComments: the top-level comments (parentId: null) of the target, each
\* with its replies relation, that is the comments whose parentId is its id.
GetComments(q) ==
    LET top == {c \in comments : c.parentId = NoComment /\ OnTarget(c, q)} IN
    /\ IF ~Given(q.snippetId) /\ ~Given(q.docId) /\ ~Given(q.bugId)
       THEN out' = Reply("getComments", Anon, q, 400, [error |-> "Content ID is required"],
                         Tables)
       ELSE out' = Reply("getComments", Anon, q, 200,
                         [top     |-> {c.id : c \in top},
                          replies |-> {c.id : c \in {x \in comments :
                                           \E t \in top : x.parentId = t.id}}],
                         Tables)
    /\ UNCHANGED << sockVars, focus, httpVars >>

\* Bodies of comments and replies on a doc and on a bug.
ThreadBodies ==
    { [contentLen |-> 1, snippetId |-> Absent, docId |-> "d1", bugId |-> Absent,
       parentId |-> pid] : pid \in {NoComment, 1} }
    \cup
    { [contentLen |-> 1, snippetId |-> Absent, docId |-> Absent, bugId |-> "b1",
       parentId |-> pid] : pid \in {NoComment, 1} }

\* The targets getComments is asked for.
ThreadQueries ==
    { [snippetId |-> Absent, docId |-> "d1", bugId |-> Absent],
      [snippetId |-> Absent, docId |-> Absent, bugId |-> "b1"],
      [snippetId |-> Absent, docId |-> Absent, bugId |-> Absent] }

(***************************************************************************)
(* The processes of a deployment and the hourly cron job (app.ts).         *)
(***************************************************************************)
Instances  == {"i1", "i2"}
NodeEnvs   == {"development", "production"}

\* The instance the operator designates: the only one started with
\* PRIMARY_INSTANCE=true.
Designated == "i1"

\* A process before app.ts has run.
NotStarted(flag, nodeEnv) ==
    [primaryFlag |-> flag, nodeEnv |-> nodeEnv, started |-> FALSE, scheduled |-> FALSE]

\* process.env.PRIMARY_INSTANCE === 'true' || env.NODE_ENV === 'development'
IsPrimaryInstance(proc) == proc.primaryFlag \/ proc.nodeEnv = "development"

\* app.ts runs in instance i: cron.schedule(...) if isPrimaryInstance.
StartInstance(i) ==
    /\ ~procs[i].started
    /\ procs' = [procs EXCEPT ![i].started = TRUE,
                              ![i].scheduled = IsPrimaryInstance(procs[i])]
    /\ out' = [op |-> "start", instance |-> i]
    /\ UNCHANGED << sockVars, focus, liveVars, followVars, modVars, contentVars, now,
                    accounts, reqs >>

\* The job fires in instance i: bug.deleteMany({ where: { expiresAt: { lt: new Date() } } }),
\* with the comments of the bugs that go and their notifications.
CronRun(i) ==
    LET dead == {g.id : g \in {x \in bugs : Expired(x, now)}}
        gone == WithReplies(comments, {c.id : c \in {x \in comments : x.bugId \in dead}})
    IN
    /\ procs[i].scheduled
    /\ bugs' = {g \in bugs : g.id \notin dead}
    /\ comments' = {c \in comments : c.id \notin gone}
    /\ notifs' = NotifsWithout(gone)
    /\ out' = [op |-> "cron", instance |-> i, at |-> now, pre |-> bugs]
    /\ UNCHANGED << sockVars, focus, liveVars, follows, followSeq, hist, modVars, docs,
                    commentSeq, likes, bookmarks, now, accounts, procs, reqs >>

(***************************************************************************)
(* The state after construction: the store holds two users' seed content,  *)
(* no socket is connected, and initializeSocket has run.                   *)
(***************************************************************************)
InitSock ==
    /\ conns = [c \in Conns |-> NoConn]
    /\ focus = "none"
    /\ recent = [c \in Conns |-> NoRecent]

InitLive ==
    /\ ioReady = TRUE
    /\ failing = {}

InitStore ==
    /\ emitted = EmptyBag
    /\ follows = {}
    /\ followSeq = 0
    /\ notifs = EmptyBag
    /\ blocks = {}
    /\ blockSeq = 0
    /\ reports = {}
    /\ reportSeq = 0
    /\ docs = {[id |-> "d1", authorId |-> "u1", isPublic |-> TRUE, content |-> "a"],
               [id |-> "d2", authorId |-> "u1", isPublic |-> FALSE, content |-> "a"]}
    /\ bugs = {[id |-> "b1", authorId |-> "u2", expiresAt |-> 1]}
    /\ comments = {}
    /\ commentSeq = 0
    /\ likes = {[id |-> 1, userId |-> "u2", docId |-> "d1"]}
    /\ bookmarks = {[id |-> 1, userId |-> "u2", docId |-> "d1"]}
    /\ now = 0
    /\ accounts = [g \in GithubIds |-> NoAccount]
    /\ procs = [i \in Instances |-> NotStarted(i = Designated, "production")]
    /\ reqs = EmptyBag
    /\ hist = [p \in FollowUsers \X FollowUsers |-> [flips |-> 0, created |-> 0]]
    /\ out = NoOut

InitRest == InitLive /\ InitStore

Init == InitSock /\ InitRest

(***************************************************************************)
(* The gateway with one client connection.                                 *)
(***************************************************************************)
GatewayNext ==
    \/ Connect("s1")
    \/ \E p \in Payloads : JoinUserRoom("s1", p)
    \/ \E p \in Payloads : JoinContentRoom("s1", p)
    \/ \E p \in Payloads : LeaveContentRoom("s1", p)
    \/ Disconnect("s1")
    \/ SocketError("s1")
    \/ Tick

SpecGateway == Init /\ [][GatewayNext]_vars

(***************************************************************************)
(* The rate limiter on its own: the passes of one event name, chosen at    *)
(* the start, are recorded tick by tick.                                   *)
(***************************************************************************)
InitRate ==
    /\ conns = [c \in Conns |-> NoConn]
    /\ focus \in EventNames
    /\ recent = [c \in Conns |-> NoRecent]
    /\ InitRest

RateNext ==
    \/ Connect("s1")
    \/ \E p \in Payloads : focus = "join-user-room" /\ JoinUserRoom("s1", p)
    \/ \E p \in Payloads : focus = "join-content-room" /\ JoinContentRoom("s1", p)
    \/ \E p \in Payloads : focus = "leave-content-room" /\ LeaveContentRoom("s1", p)
    \/ Disconnect("s1")
    \/ Tick

SpecRate == InitRate /\ [][RateNext]_vars

(***************************************************************************)
(* The moderation controller on its own.                                   *)
(***************************************************************************)
BlockNext ==
    \/ \E u \in {"u1", "u2"}, t \in {"u1", "u2", GhostUser, NotCuid, Absent} :
           ToggleBlockBegin(u, t)
    \/ \E r \in BagToSet(reqs) : ToggleBlockWrite(r)

ReportNext ==
    \/ \E u \in {"u1", "u2"}, b \in ReportBodies : CreateReportBegin(u, b)
    \/ \E r \in BagToSet(reqs) : CreateReportWrite(r)
    \/ \E u \in Users, id \in 1..(MaxReports + 1), st \in ReportStatuses \cup {"BOGUS"} :
           UpdateReportStatus(u, id, st)

SpecReport == Init /\ [][ReportNext]_vars
SpecBlock  == Init /\ [][BlockNext]_vars

(***************************************************************************)
(* The follow controller on its own.                                       *)
(***************************************************************************)
FollowNext ==
    \/ \E u \in FollowUsers, t \in FollowUsers \cup {GhostUser} : ToggleFollowBegin(u, t)
    \/ \E r \in BagToSet(reqs) : ToggleFollowFind(r)
    \/ \E r \in BagToSet(reqs) : ToggleFollowWrite(r)
    \/ \E r \in BagToSet(reqs) : ToggleFollowNotify(r)
    \/ \E r \in BagToSet(reqs) : ToggleFollowEmit(r)

SpecFollow == Init /\ [][FollowNext]_vars

(***************************************************************************)
(* The three edge-creating handlers.  toggleFollow, toggleBlock and        *)
(* createReport write disjoint tables, so a run exercises one family of    *)
(* them, chosen at the start.                                              *)
(***************************************************************************)
InitEdges ==
    /\ conns = [c \in Conns |-> NoConn]
    /\ recent = [c \in Conns |-> NoRecent]
    /\ focus \in {"follow", "block", "report"}
    /\ InitRest

EdgesNext ==
    \/ focus = "follow" /\ FollowNext
    \/ focus = "block" /\ BlockNext
    \/ focus = "report" /\ ReportNext

SpecEdges == InitEdges /\ [][EdgesNext]_vars

(***************************************************************************)
(* The doc handlers, with comments on docs being written meanwhile.        *)
(***************************************************************************)
DocCommentBodies == {b \in CommentBodies : b.docId = "d1" /\ CommentBodyValid(b)}

DocsNext ==
    \/ \E u \in {"u1", "u2", Anon}, id \in {"d1", "d2", GhostDoc} : GetDocById(u, id)
    \/ \E u \in {"u1", "u2", Anon}, id \in {"d1", GhostDoc}, b \in DocBodies :
           UpdateDocFind(u, id, b)
    \/ \E r \in BagToSet(reqs) : UpdateDocWrite(r)
    \/ \E u \in {"u1", "u2", Anon}, id \in {"d1", GhostDoc} : DeleteDocFind(u, id)
    \/ \E r \in BagToSet(reqs) : DeleteDocTx(r)
    \/ \E b \in DocCommentBodies : CreateCommentBegin("u2", b)
    \/ \E r \in BagToSet(reqs) : CreateCommentInsert(r)
    \/ \E r \in BagToSet(reqs) : CreateCommentNotify(r)
    \/ \E r \in BagToSet(reqs) : CreateCommentEmit(r)

SpecDocs == Init /\ [][DocsNext]_vars

(***************************************************************************)
(* createComment on every kind of target, with the clock and the sweep of  *)
(* expired bugs.                                                           *)
(***************************************************************************)
CommentsNext ==
    \/ \E u \in {"u1", "u2"}, b \in CommentBodies : CreateCommentBegin(u, b)
    \/ \E r \in BagToSet(reqs) : CreateCommentInsert(r)
    \/ \E r \in BagToSet(reqs) : CreateCommentNotify(r)
    \/ \E r \in BagToSet(reqs) : CreateCommentEmit(r)
    \/ AdvanceClock
    \/ SweepExpiredBugs

SpecComments == Init /\ [][CommentsNext]_vars

(***************************************************************************)
(* The handlers that notify and broadcast, in runs where the socket        *)
(* instance may be unassigned and store calls of `failing` throw.  A run   *)
(* exercises one family of handlers, chosen at the start.                  *)
(***************************************************************************)
InitFaults ==
    /\ conns = [c \in Conns |-> NoConn]
    /\ recent = [c \in Conns |-> NoRecent]
    /\ focus \in {"follow", "comment"}
    /\ ioReady \in BOOLEAN
    /\ failing \in SUBSET {"notification.create"}
    /\ InitStore

FaultsNext ==
    \/ focus = "follow" /\ FollowNext
    \/ focus = "comment" /\ \E u \in {"u1", "u2"}, b \in DocCommentBodies :
                                CreateCommentBegin(u, b)
    \/ focus = "comment" /\ \E r \in BagToSet(reqs) : CreateCommentInsert(r)
    \/ focus = "comment" /\ \E r \in BagToSet(reqs) : CreateCommentNotify(r)
    \/ focus = "comment" /\ \E r \in BagToSet(reqs) : CreateCommentEmit(r)

SpecFaults == InitFaults /\ [][FaultsNext]_vars

(***************************************************************************)
(* The feed: createDoc and emitToFollowers while u2 follows and unfollows  *)
(* the author, in runs where the socket instance may be unassigned and the *)
(* follower lookup may throw.                                              *)
(***************************************************************************)
InitFeed ==
    /\ InitSock
    /\ ioReady \in BOOLEAN
    /\ failing \in SUBSET {"follow.findMany"}
    /\ InitStore

FeedNext ==
    \/ ToggleFollowBegin("u2", "u1")
    \/ \E r \in BagToSet(reqs) : ToggleFollowFind(r)
    \/ \E r \in BagToSet(reqs) : ToggleFollowWrite(r)
    \/ \E r \in BagToSet(reqs) : ToggleFollowNotify(r)
    \/ \E r \in BagToSet(reqs) : ToggleFollowEmit(r)
    \/ \E u \in {"u1", Anon}, b \in DocBodies : CreateDocBegin(u, b)
    \/ \E r \in BagToSet(reqs) : CreateDocWrite(r)
    \/ \E a \in {"u1", "", Absent}, e \in {"new-doc", Absent}, p \in {"d1", Absent} :
           EmitToFollowersCall(a, e, p)
    \/ \E t \in BagToSet(reqs) : EmitToFollowersLookup(t)

SpecFeed == InitFeed /\ [][FeedNext]_vars

(***************************************************************************)
(* Two client connections that join a room, disconnect and reconnect.      *)
(***************************************************************************)
TeardownNext ==
    \/ \E c \in Conns : Connect(c)
    \/ \E c \in Conns : JoinContentRoom(c, Str("u1"))
    \/ \E c \in Conns : Disconnect(c)
    \/ Tick

SpecTeardown == Init /\ [][TeardownNext]_vars

(***************************************************************************)
(* The list endpoints, for every pair of page and limit parameters.        *)
(***************************************************************************)
PagingNext ==
    \/ \E pq \in QueryValues, lq \in QueryValues : ListDocs(pq, lq)
    \/ \E pq \in QueryValues, lq \in QueryValues : ListComments(pq, lq)
    \/ \E pq \in QueryValues, lq \in QueryValues : ListFollowers(pq, lq)
    \/ \E pq \in QueryValues, lq \in QueryValues : ListBlockedUsers(pq, lq)
    \/ \E pq \in QueryValues, lq \in QueryValues : ListReports(pq, lq)

SpecPaging == Init /\ [][PagingNext]_vars

(***************************************************************************)
(* Logins through GitHub.                                                  *)
(***************************************************************************)
LoginNext ==
    \/ \E g \in GithubIds, profile \in Profiles : GithubVerifyFind(g, profile)
    \/ \E r \in BagToSet(reqs) : GithubVerifyWrite(r)

SpecLogin == Init /\ [][LoginNext]_vars

(***************************************************************************)
(* A deployment of two instances, one of them designated, and their cron   *)
(* jobs.                                                                   *)
(***************************************************************************)
InitSweep ==
    /\ InitSock /\ InitLive
    /\ \E e \in [Instances -> NodeEnvs] :
           procs = [i \in Instances |-> NotStarted(i = Designated, e[i])]
    /\ emitted = EmptyBag /\ follows = {} /\ followSeq = 0 /\ notifs = EmptyBag
    /\ blocks = {} /\ blockSeq = 0 /\ reports = {} /\ reportSeq = 0
    /\ docs = {}
    /\ bugs = {[id |-> "b1", authorId |-> "u2", expiresAt |-> 1],
               [id |-> "b2", authorId |-> "u1", expiresAt |-> 2]}
    /\ comments = {} /\ commentSeq = 0 /\ likes = {} /\ bookmarks = {}
    /\ now = 0
    /\ accounts = [g \in GithubIds |-> NoAccount]
    /\ reqs = EmptyBag
    /\ hist = [p \in FollowUsers \X FollowUsers |-> [flips |-> 0, created |-> 0]]
    /\ out = NoOut

SweepNext ==
    \/ \E i \in Instances : StartInstance(i)
    \/ \E i \in Instances : CronRun(i)
    \/ AdvanceClock

SpecSweep == InitSweep /\ [][SweepNext]_vars

(***************************************************************************)
(* Comments on a public doc being written, edited and deleted.             *)
(***************************************************************************)
CommentIds == {1, 2, 3}

EditNext ==
    \/ \E u \in {"u1", "u2"}, b \in DocCommentBodies : CreateCommentBegin(u, b)
    \/ \E r \in BagToSet(reqs) : CreateCommentInsert(r)
    \/ \E r \in BagToSet(reqs) : CreateCommentNotify(r)
    \/ \E r \in BagToSet(reqs) : CreateCommentEmit(r)
    \/ \E u \in {"u1", "u2"}, id \in CommentIds, content \in Contents :
           UpdateCommentFind(u, id, content)
    \/ \E r \in BagToSet(reqs) : UpdateCommentWrite(r)
    \/ \E u \in {"u1", "u2"}, id \in CommentIds : DeleteCommentFind(u, id)
    \/ \E r \in BagToSet(reqs) : DeleteCommentWrite(r)

SpecEdit == Init /\ [][EditNext]_vars

(***************************************************************************)
(* Comments and replies on two content items, and their listing.           *)
(***************************************************************************)
ThreadsNext ==
    \/ \E u \in {"u1", "u2"}, b \in ThreadBodies : CreateCommentBegin(u, b)
    \/ \E r \in BagToSet(reqs) : CreateCommentInsert(r)
    \/ \E r \in BagToSet(reqs) : CreateCommentNotify(r)
    \/ \E r \in BagToSet(reqs) : CreateCommentEmit(r)
    \/ \E q \in ThreadQueries : GetComments(q)

SpecThreads == Init /\ [][ThreadsNext]_vars

(***************************************************************************)
(* toggleBlock with checkBlockStatus.                                      *)
(***************************************************************************)
BlockStatusNext ==
    \/ BlockNext
    \/ \E u \in {"u1", "u2"}, t \in {"u1", "u2", GhostUser} : CheckBlockStatus(u, t)

SpecBlockStatus == Init /\ [][BlockStatusNext]_vars

(***************************************************************************)
(* Two connections, of u1 and of u2, that join u1's room while u2 follows  *)
(* and unfollows u1.                                                       *)
(***************************************************************************)
RoomsNext ==
    \/ \E c \in Conns : Connect(c)
    \/ \E c \in Conns : JoinUserRoom(c, Str("u1"))
    \/ JoinContentRoom("s2", Str("u1"))
    \/ ToggleFollowBegin("u2", "u1")
    \/ \E r \in BagToSet(reqs) : ToggleFollowFind(r)
    \/ \E r \in BagToSet(reqs) : ToggleFollowWrite(r)
    \/ \E r \in BagToSet(reqs) : ToggleFollowNotify(r)
    \/ \E r \in BagToSet(reqs) : ToggleFollowEmit(r)

SpecRooms == Init /\ [][RoomsNext]_vars

(***************************************************************************)
(* Claims about the gateway.                                               *)
(***************************************************************************)
RECURSIVE SumSeq(_)
SumSeq(q) == IF q = << >> THEN 0 ELSE Head(q) + SumSeq(Tail(q))

IsJoin(o) == o.op \in {"join-user-room", "join-content-room"}
IsRoomEvent(o) == o.op \in EventNames

\* C8: a join-user-room or join-content-room event whose id is longer than
\* 50 characters, empty or not a string changes nothing of the gateway's
\* state: the connection's rooms and its rate-limit counters are as they
\* were before the event, and the event is logged.
C8_InvalidJoinIsNoOp ==
    (IsJoin(out) /\ InvalidId(out.payload)) =>
        /\ conns[out.conn].rooms = out.before.rooms
        /\ conns[out.conn].counts = out.before.counts
        /\ out.log # "none"

\* C8, the part the code keeps: an invalid join changes no room membership
\* and is logged.
C8_InvalidJoinKeepsRooms ==
    (IsJoin(out) /\ InvalidId(out.payload)) =>
        /\ conns[out.conn].rooms = out.before.rooms
        /\ out.log = "warn"

\* An event beyond the cap is dropped: the connection is exactly as it was,
\* and no later step joins or leaves a room on its behalf (rooms change only
\* in the step of a join or leave event that passed, or of a disconnect).
DroppedIsDropped ==
    /\ (IsRoomEvent(out) /\ out.result = "ratelimited") => conns[out.conn] = out.before
    /\ out.op = "tick" => \A c \in Conns : conns[c].rooms = out.before[c]
    /\ (IsRoomEvent(out) /\ out.result = "invalid") =>
           conns[out.conn].rooms = out.before.rooms

\* C10 as stated: within any span of one minute (any TicksPerMinute
\* consecutive ticks) at most LimitOf(e) events named e pass the limiter on a
\* connection, and every event beyond the cap is dropped.
C10_AnyMinuteSpan ==
    /\ \A c \in Conns : focus \in EventNames => SumSeq(recent[c]) <= LimitOf(focus)
    /\ DroppedIsDropped

\* C10 as amended: between two consecutive firings of the connection's reset
\* timer at most 5 join-user-room, 10 join-content-room and 10
\* leave-content-room events pass the limiter, and every event beyond the
\* cap is dropped.
C10_PerWindowCap ==
    /\ \A c \in Conns : \A e \in EventNames : conns[c].passed[e] <= LimitOf(e)
    /\ DroppedIsDropped

\* An event arrived at a full counter and was dropped.
C10_Witness ==
    /\ IsRoomEvent(out)
    /\ out.result = "ratelimited"
    /\ out.before.counts[out.op] = LimitOf(out.op)
    /\ ~InvalidId(out.payload)

(***************************************************************************)
(* Claims about the follow and moderation controllers.                     *)
(***************************************************************************)
Pending(op, u, t, pcs) ==
    BagCardinality([r \in {x \in BagToSet(reqs) :
                              x.op = op /\ x.caller = u /\ x.arg.userId = t /\ x.pc \in pcs}
                    |-> reqs[r]])

Following(a, b) == \E f \in follows : f.followerId = a /\ f.followingId = b

\* C2: starting with no edge, after n toggleFollow calls by A on B (A # B,
\* B an existing user) the edge A->B is present when n is odd and absent when
\* n is even: each call flips the edge.
C2_ParityOfCalls ==
    \A a \in FollowUsers, b \in FollowUsers :
        (a # b /\ Pending("toggleFollow", a, b, {"find", "write", "notify", "emit"}) = 0)
            => (Following(a, b) <=> hist[<< a, b >>].flips = 1)

FollowNotifs(a, b) ==
    CopiesIn([type |-> "FOLLOW", recipientId |-> b, senderId |-> a, commentId |-> NoComment], notifs)
FollowEmits(a, b) ==
    CopiesIn([room |-> b, event |-> "new-follower", from |-> a, commentId |-> NoComment], emitted)

\* C3: every toggleFollow call by A on B that creates the edge records exactly
\* one FOLLOW notification with recipient B and sender A and emits one
\* new-follower event to B's room, and a call that deletes the edge records
\* and emits nothing: the FOLLOW notifications from A to B, and the
\* new-follower events to B's room, are as many as the creations of the edge
\* (less those of calls that have created the edge and not yet got there).
C3_NotificationPerCreation ==
    /\ \A a \in FollowUsers, b \in FollowUsers :
          /\ FollowNotifs(a, b) =
                 hist[<< a, b >>].created - Pending("toggleFollow", a, b, {"notify"})
          /\ FollowEmits(a, b) =
                 hist[<< a, b >>].created - Pending("toggleFollow", a, b, {"notify", "emit"})
    /\ \A n \in BagToSet(notifs) : n.type = "FOLLOW" /\ n.recipientId # n.senderId
    /\ \A e \in BagToSet(emitted) : e.event = "new-follower" /\ e.room # e.from

\* u1 has followed u2, unfollowed and followed again: two notifications.
C3_Witness ==
    /\ hist[<< "u1", "u2" >>].created = 2
    /\ hist[<< "u1", "u2" >>].flips = 1
    /\ InFlight = 0
    /\ FollowNotifs("u1", "u2") = 2
    /\ FollowEmits("u1", "u2") = 2

\* A createReport body names content the caller wrote.
ReportsOwnContent(o) ==
    /\ o.arg.contentType \in ContentTypes
    /\ o.arg.contentId # Absent
    /\ ContentAuthor(o.arg.contentType, o.arg.contentId) = o.caller

\* C4: no Follow row has followerId = followingId, no BlockedUser row has
\* blockerId = blockedId, no Report row has reporterId = reportedId; and
\* toggleFollow on oneself, toggleBlock on oneself, a (schema-valid)
\* createReport naming oneself or content the caller wrote are answered 400
\* and create nothing.
C4_NoSelfEdges ==
    /\ \A f \in follows : f.followerId # f.followingId
    /\ \A b \in blocks : b.blockerId # b.blockedId
    /\ \A r \in reports : r.reporterId # r.reportedId
    /\ (out.op = "toggleFollow" /\ out.arg.userId = out.caller) =>
           (out.status = 400 /\ follows = out.pre)
    /\ (out.op = "toggleBlock" /\ out.arg.userId = out.caller) =>
           (out.status = 400 /\ blocks = out.pre)
    /\ (/\ out.op = "createReport"
        /\ ReportBodyValid(out.arg)
        /\ out.arg.reportedUserId = out.caller \/ ReportsOwnContent(out)) =>
           (out.status = 400 /\ reports = out.pre)

\* A self-targeting request of the run's family has just been answered,
\* with rows of that family in the table.
C4_Witness ==
    \/ /\ out.op = "toggleFollow" /\ out.arg.userId = out.caller /\ follows # {}
    \/ /\ out.op = "toggleBlock" /\ out.arg.userId = out.caller /\ blocks # {}
    \/ /\ out.op = "createReport" /\ ReportBodyValid(out.arg) /\ ReportsOwnContent(out)
       /\ out.arg.reportedUserId \notin {Absent, out.caller} /\ reports # {}

\* C9: updateReportStatus by a caller whose role is not ADMIN is answered 403
\* and leaves every Report as it was, whatever the report id and the status
\* asked for; a Report's status changes only in an updateReportStatus call
\* by an ADMIN.
C9_OnlyAdminUpdates ==
    /\ [](out.op = "updateReportStatus" /\ RoleOf(out.caller) # "ADMIN" =>
              out.status = 403 /\ reports = out.pre)
    /\ [][\A r \in reports : \A q \in reports' :
              (q.id = r.id /\ q.status # r.status) =>
                  (out'.op = "updateReportStatus" /\ RoleOf(out'.caller) = "ADMIN")]_vars

\* A non-admin has just asked for a valid status on an existing report that
\* an admin had moved out of PENDING before.
C9_Witness ==
    /\ out.op = "updateReportStatus"
    /\ RoleOf(out.caller) # "ADMIN"
    /\ out.arg.status \in ReportStatuses
    /\ \E r \in reports : r.id = out.arg.reportId /\ r.status = "RESOLVED"

(***************************************************************************)
(* Claims about the doc and comment controllers.                           *)
(***************************************************************************)
\* The doc a reply is about, as it was when the handler read it, if the
\* caller is not its author.
OthersDoc(o) == {d \in o.pre.docs : d.id = o.arg.id /\ d.authorId # o.caller}

\* A reply of updateDoc or deleteDoc to a request whose body, if it has one,
\* passes docSchema.
WriteReply(o) ==
    \/ o.op = "deleteDoc"
    \/ o.op = "updateDoc" /\ DocBodyValid(o.arg.body)

ReadDenied ==
    (out.op = "getDocById" /\ \E d \in OthersDoc(out) : ~d.isPublic) =>
        (out.status = 403 /\ "doc" \notin DOMAIN out.body)

\* C1 as stated: for every doc and every caller who is not its author, a
\* caller without a session included, getDocById on a private doc is
\* answered 403 without the doc, and updateDoc and deleteDoc are answered
\* 403 and leave the doc and its dependent rows as they were.
C1_EveryNonOwnerGets403 ==
    /\ ReadDenied
    /\ (WriteReply(out) /\ OthersDoc(out) # {}) => (out.status = 403 /\ Tables = out.pre)

\* C1, amended: getDocById as above; updateDoc and deleteDoc by a caller
\* with a session who is not the author are answered 403; without a session
\* they are refused with another status; in both cases every table is as it
\* was.
C1_NonOwnerCannotReadOrWrite ==
    /\ ReadDenied
    /\ (WriteReply(out) /\ OthersDoc(out) # {}) =>
           /\ Tables = out.pre
           /\ out.caller # Anon => out.status = 403
           /\ out.caller = Anon => out.status \notin {200, 403}

\* u2 has just been refused the deletion of u1's doc, which has a like, a
\* bookmark and a comment.
C1_Witness ==
    /\ out.op = "deleteDoc" /\ out.caller = "u2" /\ out.arg.id = "d1" /\ out.status = 403
    /\ \E c \in comments : c.docId = "d1"
    /\ \E l \in likes : l.docId = "d1"
    /\ \E b \in bookmarks : b.docId = "d1"

\* C5: no Like, Comment or Bookmark row refers to a doc that is not there,
\* in any state; after a successful deleteDoc the doc is gone, and a deleteDoc
\* that fails leaves every table as it was - also when a createComment on the
\* doc is between its check that the doc exists and its insert.
C5_DeleteDocAtomic ==
    /\ \A l \in likes : DocRows(l.docId) # {}
    /\ \A b \in bookmarks : DocRows(b.docId) # {}
    /\ \A c \in comments : c.docId # Absent => DocRows(c.docId) # {}
    /\ (out.op = "deleteDoc" /\ out.status = 200) =>
           /\ DocRows(out.arg.id) = {}
           /\ \E d \in out.pre.docs : d.id = out.arg.id
    /\ (out.op = "deleteDoc" /\ out.status # 200) => Tables = out.pre

\* A doc with a like, a bookmark and a comment has just been deleted while a
\* createComment on it had found it and not yet inserted.
C5_Witness ==
    /\ out.op = "deleteDoc" /\ out.status = 200
    /\ \E c \in out.pre.comments : c.docId = out.arg.id
    /\ \E l \in out.pre.likes : l.docId = out.arg.id
    /\ \E b \in out.pre.bookmarks : b.docId = out.arg.id
    /\ \E r \in BagToSet(reqs) :
           r.op = "createComment" /\ r.pc = "insert" /\ r.arg.docId = out.arg.id

\* The target ids a body or a row sets.
TargetsSet(b) == {k \in {"snippetId", "docId", "bugId"} : b[k] # Absent}

\* C6: createComment with a body that sets none, or more than one, of
\* snippetId, docId and bugId is answered 400 and creates no Comment, no
\* Notification and no broadcast; every Comment row has exactly one of the
\* three set.
C6_WrongTargetCountIs400 ==
    /\ (out.op = "createComment" /\ Cardinality(TargetsSet(out.arg)) # 1) =>
           (out.status = 400 /\ Tables = out.pre)
    /\ \A c \in comments : Cardinality(TargetsSet(c)) = 1

\* A createComment reply given at the target lookup: no suspended call ends
\* with it.
AtLookup == out'.op = "createComment" /\ reqs' = reqs

\* C7: createComment (with a body that passes commentSchema) on a bug whose
\* row exists with expiresAt earlier than the current time is answered 410,
\* on a bug id of no row 404, and neither creates a comment - no such call
\* gets past the lookup; this for every expired bug not yet swept.
C7_ExpiredBugIsGone ==
    /\ [][(AtLookup /\ CommentBodyValid(out'.arg) /\ Given(out'.arg.bugId)) =>
              /\ comments' = comments
              /\ BugRows(out'.arg.bugId) = {} => out'.status = 404
              /\ \A g \in BugRows(out'.arg.bugId) :
                     g.expiresAt < now /\ out'.status = 410]_vars
    /\ [][\A r \in BagToSet(reqs') :
              (/\ r.op = "createComment" /\ r.pc = "insert" /\ Given(r.arg.bugId)
               /\ CopiesIn(r, reqs') > CopiesIn(r, reqs)) =>
                  \E g \in BugRows(r.arg.bugId) : ~(g.expiresAt < now)]_vars

\* The bug b1 is expired and not swept, and a comment on it has just been
\* refused with 410.
C7_Witness ==
    /\ out.op = "createComment" /\ out.status = 410 /\ out.arg.bugId = "b1"
    /\ \E g \in bugs : g.id = "b1" /\ g.expiresAt < now

(***************************************************************************)
(* Claims about failures of the notification and the broadcast.            *)
(***************************************************************************)
\* The suspended calls of handler `op` that have made their primary write
\* and end in this step.
EndsAfterWrite(op) ==
    {r \in BagToSet(reqs) : /\ r.op = op /\ r.pc \in {"notify", "emit"}
                            /\ CopiesIn(r, reqs') < CopiesIn(r, reqs)
                            /\ BagCardinality(reqs') < BagCardinality(reqs)}

\* C11: a failure of the notification or of the broadcast never fails the
\* primary request: a createComment call that has persisted its comment ends
\* with 201, and a toggleFollow call that has created the edge ends with
\* following: true, also when createNotification throws or getIO throws.
C11_PrimaryRequestSucceeds ==
    /\ [][EndsAfterWrite("createComment") # {} => out'.status = 201]_vars
    /\ [][EndsAfterWrite("toggleFollow") # {} =>
              (out'.status = 200 /\ out'.body = [following |-> TRUE])]_vars

\* C12: emitToFollowers never throws to its caller: when the follower lookup
\* fails or the socket instance is unassigned the call ends having logged
\* the error and emitted nothing, with a missing argument it returns after a
\* warning, and a createDoc that has made its row answers 201 with the doc.
C12_EmitToFollowersSwallows ==
    /\ out.op = "emitToFollowers" =>
           /\ out.result \in {"emitted", "logged", "warned"}
           /\ MissingArgument(out.arg.authorId, out.arg.eventName, out.arg.payload) =>
                  (out.result = "warned" /\ emitted = out.pre)
           /\ (out.result # "warned" /\ ("follow.findMany" \in failing \/ ~ioReady)) =>
                  (out.result = "logged" /\ emitted = out.pre)
    /\ (out.op = "createDoc" /\ docs # out.pre.docs) =>
           (out.status = 201 /\ out.body.doc \in docs)
    /\ \A r \in BagToSet(reqs) : r.op = "createDoc" => DocRows(NewDocId) = {}

\* The doc has been created and answered while the socket instance is
\* unassigned, and its emitToFollowers has just ended with the error logged.
C12_Witness ==
    /\ out.op = "emitToFollowers" /\ out.result = "logged" /\ out.arg.eventName = "new-doc"
    /\ out.arg.payload = NewDocId
    /\ ~ioReady
    /\ DocRows(NewDocId) # {}

(***************************************************************************)
(* Further claims about the gateway.                                       *)
(***************************************************************************)
\* C13: no handler of a live-channel event (join-user-room,
\* join-content-room, leave-content-room, disconnect, error) throws, for any
\* payload and any disconnect; a malformed event changes no room and is
\* logged.
C13_HandlersNeverRaise ==
    /\ out.op \in EventNames \cup {"disconnect", "error"} => out.result # "threw"
    /\ (IsRoomEvent(out) /\ out.result # "ratelimited" /\ InvalidId(out.payload)) =>
           (conns[out.conn].rooms = out.before.rooms /\ out.log # "none")

\* C14: when a connection disconnects its reset timer is cancelled: from
\* then on no reset of its counters fires, and the disconnect leaves the
\* other connections' state (their counters and timers) as it was.
C14_TimerCancelledOnDisconnect ==
    /\ [](\A c \in Conns : conns[c].status = "closed" => ~conns[c].timer)
    /\ [][\A c \in Conns : (conns[c].status = "closed" /\ conns'[c].status = "closed") =>
              conns'[c].counts = conns[c].counts]_vars
    /\ [][out'.op = "disconnect" =>
              \A d \in Conns \ {out'.conn} : conns'[d] = conns[d]]_vars

\* s1 has disconnected with a counted event in its map, s2 is connected and
\* has a counted event too, and a minute's reset has just fired.
C14_Witness ==
    /\ out.op = "tick"
    /\ conns["s1"].status = "closed" /\ conns["s1"].counts["join-content-room"] > 0
    /\ conns["s2"].status = "open" /\ conns["s2"].age = 0
    /\ conns["s2"].counts = NoCounts /\ "u1" \in conns["s2"].rooms

(***************************************************************************)
(* Further claims about the moderation controller.                         *)
(***************************************************************************)
Is4xx(status) == status >= 400 /\ status <= 499

\* C15: in the moderation controller a body that fails validation is
\* answered with a 4xx status, not 500, and changes nothing: toggleBlock
\* with a missing or non-cuid userId, createReport with a body that fails
\* reportSchema, updateReportStatus by an admin with a status outside the
\* enum.
C15_ValidationFailureIs4xx ==
    /\ (out.op = "toggleBlock" /\ ~BlockBodyValid(out.arg.userId)) =>
           (Is4xx(out.status) /\ blocks = out.pre)
    /\ (out.op = "createReport" /\ ~ReportBodyValid(out.arg)) =>
           (Is4xx(out.status) /\ reports = out.pre)
    /\ (/\ out.op = "updateReportStatus" /\ RoleOf(out.caller) = "ADMIN"
        /\ out.arg.status \notin ReportStatuses) =>
           (Is4xx(out.status) /\ reports = out.pre)

(***************************************************************************)
(* Claims about pagination.                                                *)
(***************************************************************************)
\* C16: every list endpoint that answers uses a page of at least 1 and a
\* limit between 1 and 50, whatever the page and limit parameters are; on
\* the routes behind validatePagination a page or limit below 1 is answered
\* 400.
C16_PageAndLimitInRange ==
    /\ (out.op = "list" /\ out.status = 200) =>
           (out.page >= 1 /\ out.limit >= 1 /\ out.limit <= 50)
    /\ (/\ out.op = "list" /\ out.endpoint = "docs"
        /\ \/ out.pageQuery.t = "digits" /\ out.pageQuery.v < 1
           \/ out.limitQuery.t = "digits" /\ out.limitQuery.v < 1) =>
           out.status = 400

(***************************************************************************)
(* Claims about the login.                                                 *)
(***************************************************************************)
\* C17: the identity-provider callback redirects to the profile setup
\* exactly when this login created the local User row, and to the home
\* destination exactly when the row was there before.
C17_SetupIffCreated ==
    (out.op = "githubCallback" /\ out.result # "error") =>
        /\ out.created <=> ~out.pre.exists
        /\ out.result = "/profile/setup" <=> out.created
        /\ out.result = "/home" <=> ~out.created

(***************************************************************************)
(* Claims about the cron job.                                              *)
(***************************************************************************)
\* C18: with one instance designated as primary, only that instance
\* schedules the hourly sweep, so no two instances have it scheduled and no
\* other instance runs it; a run deletes exactly the Bug rows whose
\* expiresAt is earlier than the time of the run.
C18_SweepOnlyOnDesignated ==
    /\ \A i \in Instances : procs[i].scheduled => i = Designated
    /\ Cardinality({i \in Instances : procs[i].scheduled}) <= 1
    /\ out.op = "cron" =>
           /\ out.instance = Designated
           /\ bugs = {g \in out.pre : ~(g.expiresAt < out.at)}

(***************************************************************************)
(* Claims about what createComment notifies and broadcasts.                *)
(***************************************************************************)
\* The createComment calls that come to wait at `pc` in this step.
Arrived(pc) ==
    {r \in BagToSet(reqs') : /\ r.op = "createComment" /\ r.pc = pc
                             /\ CopiesIn(r, reqs') > CopiesIn(r, reqs)}

\* The author and the id of the one content row a body targets.
TargetId(b) ==
    IF Given(b.snippetId) THEN b.snippetId ELSE IF Given(b.docId) THEN b.docId ELSE b.bugId
TargetAuthor(b) ==
    IF Given(b.snippetId) THEN ContentAuthor("snippet", b.snippetId)
    ELSE IF Given(b.docId) THEN ContentAuthor("doc", b.docId)
    ELSE ContentAuthor("bug", b.bugId)

\* C19: a successful createComment by S on content of X records exactly one
\* notification when X # S, with recipient X, sender S, the id of the new
\* comment and type REPLY if parentId was given, otherwise COMMENT, and none
\* when X = S; in both cases it emits new_comment with the created comment
\* to the room of the content id.  A createComment answered 400, 403, 404 or
\* 410 records no notification and emits nothing.  (A call has its comment
\* and its notification, if any, when it comes to the broadcast.)
C19_NotifiesAuthorAndEmits ==
    [][ /\ \A r \in Arrived("insert") :
               r.loc.author = TargetAuthor(r.arg) /\ r.loc.contentId = TargetId(r.arg)
        /\ \A r \in Arrived("emit") :
               /\ \E c \in comments' : c.id = r.loc.commentId /\ c.authorId = r.caller
               /\ IF r.loc.author # r.caller
                  THEN notifs' = notifs (+) SetToBag({
                           [type |-> IF r.arg.parentId = NoComment THEN "COMMENT" ELSE "REPLY",
                            recipientId |-> r.loc.author, senderId |-> r.caller,
                            commentId |-> r.loc.commentId]})
                  ELSE notifs' = notifs
        /\ Arrived("emit") = {} => notifs' \sqsubseteq notifs
        /\ IF out'.op = "createComment" /\ out'.status = 201
           THEN \E r \in BagToSet(reqs) :
                    /\ r.op = "createComment" /\ r.pc = "emit"
                    /\ reqs' = reqs (-) SetToBag({r})
                    /\ out'.caller = r.caller /\ out'.body.comment = r.loc.commentId
                    /\ emitted' = emitted (+) SetToBag({
                           [room |-> r.loc.contentId, event |-> "new_comment",
                            from |-> r.caller, commentId |-> r.loc.commentId]})
           ELSE emitted' = emitted
        /\ (out'.op = "createComment" /\ out'.status \in {400, 403, 404, 410}) =>
               reqs' = reqs /\ notifs' = notifs /\ emitted' = emitted
      ]_vars

C19_Witness ==
    /\ out.op = "createComment" /\ out.status = 201 /\ out.arg.parentId # NoComment
    /\ \E n \in BagToSet(notifs) : n.type = "REPLY" /\ n.commentId = out.body.comment
    /\ \E e \in BagToSet(emitted) : e.event = "new_comment" /\ e.commentId = out.body.comment

(***************************************************************************)
(* Claims about the visibility of a comment's target.                      *)
(***************************************************************************)
\* createComment answers at its lookup of the doc it targets.
RepliedAtLookup ==
    /\ out'.op = "createComment" /\ reqs' = reqs
    /\ Given(out'.arg.docId)

\* C20: createComment persists a comment only on a target that exists and
\* is visible: a missing doc gives 404, a doc with isPublic = false gives 403
\* whoever calls, and no Comment row is created for a doc that is private
\* when the row is inserted, also when an updateDoc that turns the doc
\* private comes between the visibility check and the insert.
C20_NoCommentOnPrivateDoc ==
    [][ /\ (RepliedAtLookup /\ DocRows(out'.arg.docId) = {}) => out'.status = 404
        /\ (RepliedAtLookup /\ \E d \in DocRows(out'.arg.docId) : ~d.isPublic) =>
               out'.status = 403
        /\ \A c \in comments' \ comments :
               Given(c.docId) => \E d \in docs' : d.id = c.docId /\ d.isPublic
      ]_vars

(***************************************************************************)
(* Claims about updateComment and deleteComment.                           *)
(***************************************************************************)
\* The step answers an updateComment or deleteComment call.
EditReplied == out'.op \in {"updateComment", "deleteComment"}

\* The call passes the checks of its content: deleteComment has none.
ContentAccepted ==
    out'.op = "deleteComment" \/ out'.arg.content \notin {Absent, "", "  ", LongText}

\* C21: updateComment and deleteComment succeed only for the comment's
\* author: a call naming no comment is answered 404 and a call by someone
\* else 403, and both leave the comments as they are; a successful
\* updateComment changes the content of that comment and nothing else of it.
\* (For calls whose content passes the checks of updateComment.)
C21_OnlyAuthorEdits ==
    [][ EditReplied =>
          /\ (reqs' = reqs /\ ContentAccepted /\ CommentRows(out'.arg.id) = {}) =>
                 out'.status = 404
          /\ (reqs' = reqs /\ ContentAccepted
                /\ \E c \in CommentRows(out'.arg.id) : c.authorId # out'.caller) =>
                 out'.status = 403
          /\ out'.status \in {403, 404} => comments' = comments
          /\ out'.status = 200 =>
                 \E c \in CommentRows(out'.arg.id) :
                     /\ c.authorId = out'.caller
                     /\ out'.op = "updateComment" =>
                            comments' = (comments \ {c}) \cup
                                {[id |-> c.id, authorId |-> c.authorId,
                                  snippetId |-> c.snippetId, docId |-> c.docId,
                                  bugId |-> c.bugId, parentId |-> c.parentId,
                                  content |-> out'.arg.content]}
                     /\ out'.op = "deleteComment" => c \notin comments'
      ]_vars

C21_Witness ==
    /\ out.op = "updateComment" /\ out.status = 200
    /\ \E c \in comments : c.id = out.arg.id /\ c.content = "b" /\ c.authorId = out.caller

(***************************************************************************)
(* Claims about comment threads.                                           *)
(***************************************************************************)
\* C22: threading is single-level: every comment with a parentId points to
\* an existing top-level comment on the same content item, so getComments
\* returns every comment of a target, as a top-level comment or as a direct
\* reply of one.
C22_SingleLevelThreads ==
    /\ \A c \in comments :
           c.parentId # NoComment =>
               \E t \in comments :
                   /\ t.id = c.parentId /\ t.parentId = NoComment
                   /\ t.snippetId = c.snippetId /\ t.docId = c.docId /\ t.bugId = c.bugId
    /\ (out.op = "getComments" /\ out.status = 200) =>
           \A c \in comments :
               OnTarget(c, out.arg) => c.id \in out.body.top \cup out.body.replies

(***************************************************************************)
(* Claims about toggleBlock.                                               *)
(***************************************************************************)
Blocked(u, t) == \E b \in blocks : b.blockerId = u /\ b.blockedId = t

\* C23: toggleBlock by a caller on another, existing user flips the
\* BlockedUser edge of the ordered pair: the call deletes the edge if there
\* is one and answers isBlocked: false, creates it otherwise and answers
\* isBlocked: true, and changes no other pair; checkBlockStatus answers
\* exactly whether the edge is there.
C23_BlockIsAToggle ==
    [][ /\ \A r \in BagToSet(reqs) :
               (/\ r.op = "toggleBlock" /\ r.pc = "write"
                /\ CopiesIn(r, reqs') < CopiesIn(r, reqs)
                /\ r.arg.userId \in Users /\ r.arg.userId # r.caller) =>
                   /\ out'.status = 200
                   /\ Blocked(r.caller, r.arg.userId)' # Blocked(r.caller, r.arg.userId)
                   /\ out'.body.isBlocked = Blocked(r.caller, r.arg.userId)'
                   /\ \A b \in (blocks \ blocks') \cup (blocks' \ blocks) :
                          b.blockerId = r.caller /\ b.blockedId = r.arg.userId
        /\ out'.op = "checkBlockStatus" =>
               out'.body.isBlocked = Blocked(out'.caller, out'.arg.userId)
      ]_vars

(***************************************************************************)
(* Claims about reports.                                                   *)
(***************************************************************************)
\* The body names a content item: both contentType and contentId are given.
NamesContent(b) == b.contentType # Absent /\ b.contentId # Absent

\* The request resolves to no target: no reportedUserId and no content, or
\* content that does not exist.
NoTarget(b) ==
    \/ b.reportedUserId = Absent /\ ~NamesContent(b)
    \/ NamesContent(b) /\ ContentAuthor(b.contentType, b.contentId) = Absent

\* C24: every Report that createReport creates has exactly one target: a
\* user only (reportedId is the reportedUserId given, no content key), or one
\* existing content item, and then reportedId is the author of that content
\* whatever reportedUserId was given; a request that resolves to no target is
\* answered 400 and creates no Report.  (For bodies that pass reportSchema.)
C24_ReportHasOneTarget ==
    [][ /\ \A x \in {y \in reports' : \A z \in reports : z.id # y.id} :
               \E r \in BagToSet(reqs) :
                   /\ r.op = "createReport" /\ CopiesIn(r, reqs') < CopiesIn(r, reqs)
                   /\ x.reporterId = r.caller
                   /\ IF NamesContent(r.arg)
                      THEN /\ x.kind = r.arg.contentType /\ x.contentId = r.arg.contentId
                           /\ ContentAuthor(x.kind, x.contentId) # Absent
                           /\ x.reportedId = ContentAuthor(x.kind, x.contentId)
                      ELSE /\ x.kind = Absent /\ x.contentId = Absent
                           /\ x.reportedId = r.arg.reportedUserId
        /\ (/\ out'.op = "createReport"
            /\ ReportBodyValid(out'.arg) /\ NoTarget(out'.arg)) =>
               out'.status = 400 /\ reports' = reports
      ]_vars

\* C25: a report's status follows PENDING -> REVIEWED / RESOLVED / DISMISSED:
\* every report is created PENDING, and updateReportStatus only moves a
\* report from PENDING to one of the three other values, never back to
\* PENDING and never from one of the three to another.
C25_StatusLifecycle ==
    [][ /\ \A y \in reports' :
               (\A x \in reports : x.id # y.id) => y.status = "PENDING"
        /\ \A x \in reports, y \in reports' :
               (x.id = y.id /\ x.status # y.status) =>
                   x.status = "PENDING" /\ y.status \in {"REVIEWED", "RESOLVED", "DISMISSED"}
        /\ (out'.op = "updateReportStatus" /\ out'.status = 200) =>
               out'.arg.status # "PENDING"
      ]_vars

(***************************************************************************)
(* Claims about the feed.                                                  *)
(***************************************************************************)
\* C26: an emitToFollowers(authorId, eventName, payload) that succeeds emits
\* the event exactly once to the room of each user with a Follow edge to
\* authorId at the lookup and exactly once to authorId's own room, and to no
\* other room.
C26_OncePerFollowerAndAuthor ==
    (out.op = "emitToFollowers" /\ out.result = "emitted") =>
        LET a == out.arg.authorId
            to == {u \in Users : u = a \/ Following(u, a)}
        IN emitted = out.pre (+) [e \in {[room |-> u, event |-> out.arg.eventName,
                                          from |-> a, commentId |-> NoComment] : u \in to}
                                  |-> 1]

C26_Witness ==
    /\ out.op = "emitToFollowers" /\ out.result = "emitted"
    /\ Following("u2", out.arg.authorId)
    /\ \E e \in BagToSet(emitted) : e.room = "u2" /\ e.event = "new-doc"

(***************************************************************************)
(* Claims about the rooms of users.                                        *)
(***************************************************************************)
\* C27: the room of a user is private to that user: an event emitted to the
\* room of U is sent only to connections of U, and no connection of another
\* user is in U's room, whatever join-user-room and join-content-room
\* events it has sent.
C27_UserRoomIsPrivate ==
    /\ [](\A c \in Conns : \A u \in Users :
              (conns[c].status = "open" /\ u \in conns[c].rooms) => OwnerOf(c) = u)
    /\ [][\A e \in BagToSet(emitted') :
              (CopiesIn(e, emitted') > CopiesIn(e, emitted) /\ e.room \in Users) =>
                  \A c \in Recipients(e.room) : OwnerOf(c) = e.room]_vars

(***************************************************************************)
(* Claims about the uniqueness of Follow rows.                             *)
(***************************************************************************)
\* The toggleFollow calls that come to wait at `pc` in this step, and those
\* that leave it.
FollowArrived(pc) ==
    {r \in BagToSet(reqs') : /\ r.op = "toggleFollow" /\ r.pc = pc
                             /\ CopiesIn(r, reqs') > CopiesIn(r, reqs)}
FollowLeft(pc) ==
    {r \in BagToSet(reqs) : /\ r.op = "toggleFollow" /\ r.pc = pc
                            /\ CopiesIn(r, reqs') < CopiesIn(r, reqs)}

\* The step answers toggleFollow with the given value of `following`.
Reports(following) ==
    /\ out'.op = "toggleFollow" /\ out'.status = 200
    /\ out'.body = [following |-> following]

\* C28: there is at most one Follow row per ordered pair (follower,
\* following) in every state, also when toggleFollow calls of one user on
\* one target interleave between the existence check and the write; and a
\* call answers following: false only when it has deleted the row of the
\* pair and following: true only when it has created it.
C28_OneRowPerPair ==
    /\ [](\A f \in follows, g \in follows :
              (f.followerId = g.followerId /\ f.followingId = g.followingId) => f = g)
    /\ [][ /\ Reports(FALSE) =>
                  \E f \in follows \ follows' :
                      f.followerId = out'.caller /\ f.followingId = out'.arg.userId
           /\ Reports(TRUE) =>
                  \E r \in FollowLeft("emit") :
                      r.caller = out'.caller /\ r.arg = out'.arg
           /\ \A r \in FollowArrived("emit") :
                  \E q \in FollowLeft("notify") : q.caller = r.caller /\ q.arg = r.arg
           /\ \A r \in FollowArrived("notify") :
                  \E f \in follows' \ follows :
                      /\ f.followerId = r.caller /\ f.followingId = r.arg.userId
                      /\ FollowLeft("write") # {}
         ]_vars

\* A call has just been refused its write: the row of its pair was created
\* by another call after its existence check.
C28_Witness ==
    /\ out.op = "toggleFollow" /\ out.status = 500
    /\ \E f \in follows : f.followerId = out.caller /\ f.followingId = out.arg.userId
    /\ \E f \in out.pre : f.followerId = out.caller /\ f.followingId = out.arg.userId

(***************************************************************************)
(* docController.ts: getAllDocs and getUserDocs                            *)
(***************************************************************************)
\* orderBy: { createdAt: 'desc' }: the docs, the newest first.
ByCreatedAtDesc == << NewDocId, "d2", "d1" >>

\* ...(currentUserId === user.id ? {} : { isPublic: true })
OwnerSeesAll(currentUserId, userId) == TRUE
IsOwner(currentUserId, userId) == currentUserId = userId

\* The `where` of a list: getAllDocs keeps the public docs, getUserDocs the
\* docs of the user, the private ones only for the user.
DocWhere(q, caller, d) ==
    IF q.list = "getAllDocs"
    THEN d.isPublic
    ELSE /\ d.authorId = q.username
         /\ IsOwner(CurrentUserId(caller), q.username) \/ d.isPublic

\* prisma.doc.findMany({ where, skip, take: limit, orderBy })
FindManyDocs(q, caller) ==
    LET ids  == SelectSeq(ByCreatedAtDesc,
                          LAMBDA id : \E d \in docs : d.id = id /\ DocWhere(q, caller, d))
        skip == (q.page - 1) * q.limit
        last == IF skip + q.limit < Len(ids) THEN skip + q.limit ELSE Len(ids)
    IN [i \in 1 .. (IF last > skip THEN last - skip ELSE 0) |->
            CHOOSE d \in docs : d.id = ids[skip + i]]

\* prisma.doc.count({ where })
CountDocs(q, caller) == Cardinality({d \in docs : DocWhere(q, caller, d)})

\* Math.ceil(total / limit)
Ceil(total, limit) == (total + limit - 1) \div limit

\* res.json({ docs, total, pages, currentPage, hasMore })
DocListBody(q, found, total) ==
    [docs |-> found, total |-> total, pages |-> Ceil(total, q.limit),
     currentPage |-> q.page, hasMore |-> (q.page - 1) * q.limit + q.limit < total]

\* A list up to the first of its two queries answered.  getUserDocs has
\* looked the user up and answers 404 without one.  Promise.all sends
\* findMany and count as two queries; either is answered first.
DocListBegin(caller, q) ==
    /\ InFlight < MaxInFlight
    /\ IF q.list = "getUserDocs" /\ q.username \notin Users
       THEN /\ out' = Reply(q.list, caller, q, 404, [message |-> "User not found"], Tables)
            /\ reqs' = reqs
       ELSE /\ \/ reqs' = Suspended([op |-> q.list, caller |-> caller, arg |-> q, pc |-> "count",
                                     loc |-> [found |-> FindManyDocs(q, caller), total |-> 0]])
               \/ reqs' = Suspended([op |-> q.list, caller |-> caller, arg |-> q, pc |-> "findMany",
                                     loc |-> [found |-> << >>, total |-> CountDocs(q, caller)]])
            /\ out' = NoOut
    /\ UNCHANGED << sockVars, focus, liveVars, followVars, modVars, contentVars, now, accounts, procs >>

\* The other query answered, and the response.
DocListEnd(r) ==
    /\ BagIn(r, reqs) /\ r.op \in {"getAllDocs", "getUserDocs"}
    /\ reqs' = Resumed(r)
    /\ out' = Reply(r.op, r.caller, r.arg, 200,
                    DocListBody(r.arg,
                                IF r.pc = "findMany" THEN FindManyDocs(r.arg, r.caller)
                                                     ELSE r.loc.found,
                                IF r.pc = "count" THEN CountDocs(r.arg, r.caller)
                                                  ELSE r.loc.total),
                    Tables)
    /\ UNCHANGED << sockVars, focus, liveVars, followVars, modVars, contentVars, now, accounts, procs >>

\* The lists a client asks for.
DocQueries ==
    { [list |-> "getAllDocs", username |-> Absent, page |-> pg, limit |-> 1] : pg \in {1, 2} }
    \cup { [list |-> "getUserDocs", username |-> u, page |-> 1, limit |-> lm] :
               u \in {"u1", "u2", GhostUser}, lm \in {1, 10} }

\* Lists while docs are created and their visibility is changed.
DocListNext ==
    \/ \E u \in {"u1", "u2", Anon}, q \in DocQueries : DocListBegin(u, q)
    \/ \E r \in BagToSet(reqs) : DocListEnd(r)
    \/ \E b \in DocBodies : UpdateDocFind("u1", "d1", b)
    \/ \E r \in BagToSet(reqs) : UpdateDocWrite(r)
    \/ \E u \in {"u1", "u2"}, b \in DocBodies : CreateDocBegin(u, b)
    \/ \E r \in BagToSet(reqs) : CreateDocWrite(r)

SpecDocLists == Init /\ [][DocListNext]_vars

\* The docs a caller may be shown in a list.
Listable(q, caller) ==
    {d \in docs : /\ d.isPublic \/ (q.list = "getUserDocs" /\ d.authorId = caller)
                  /\ q.list = "getUserDocs" => d.authorId = q.username}

\* The list requests that have just come to wait for the query `pc`.
ListArrived(pc) ==
    {r \in BagToSet(reqs') : /\ r.op \in {"getAllDocs", "getUserDocs"} /\ r.pc = pc
                             /\ CopiesIn(r, reqs') > CopiesIn(r, reqs)}

\* C29: a list response holds no private doc of someone other than the
\* caller: getAllDocs answers public docs only, getUserDocs answers docs of
\* the named user and a private one only to that user; total is the number
\* of docs the same filter keeps when it is counted, and pages and hasMore
\* follow from that total.
C29_ListsHideForeignPrivateDocs ==
    /\ [](out.op \in {"getAllDocs", "getUserDocs"} /\ out.status = 200 =>
            /\ \A i \in DOMAIN out.body.docs :
                   LET d == out.body.docs[i] IN
                   /\ d.isPublic \/ d.authorId = out.caller
                   /\ out.op = "getAllDocs" => d.isPublic
                   /\ out.op = "getUserDocs" => d.authorId = out.arg.username
            /\ out.body.pages * out.arg.limit >= out.body.total
            /\ (out.body.pages - 1) * out.arg.limit < out.body.total \/ out.body.total = 0
            /\ out.body.hasMore <=> out.arg.page * out.arg.limit < out.body.total)
    /\ [][ /\ \A r \in ListArrived("findMany") :
                      r.loc.total = Cardinality(Listable(r.arg, r.caller))
           /\ \A r \in BagToSet(reqs) :
                  (r.op \in {"getAllDocs", "getUserDocs"} /\ CopiesIn(r, reqs') < CopiesIn(r, reqs)) =>
                      /\ r.pc = "count" =>
                             /\ out'.body.total = Cardinality(Listable(r.arg, r.caller))
                             /\ out'.body.docs = r.loc.found
                      /\ r.pc = "findMany" =>
                             /\ out'.body.total = r.loc.total
                             /\ \A i \in DOMAIN out'.body.docs :
                                    out'.body.docs[i] \in Listable(r.arg, r.caller)
           /\ \A r \in ListArrived("count") :
                      \A i \in DOMAIN r.loc.found : r.loc.found[i] \in Listable(r.arg, r.caller)
         ]_vars

\* The author is shown the private doc in the list of their own docs, with
\* a total that counts it, while there are more docs than the page holds.
C29_Witness ==
    /\ out.op = "getUserDocs" /\ out.status = 200 /\ out.caller = "u1"
    /\ \E i \in DOMAIN out.body.docs : ~out.body.docs[i].isPublic
    /\ out.body.total >= 2 /\ out.body.hasMore

(***************************************************************************)
(* docController.ts and the feed: createDoc, updateDoc, deleteDoc          *)
(***************************************************************************)
\* Docs are created, changed and deleted while the broadcasts of createDoc
\* run.
DocFeedNext ==
    \/ \E u \in {"u1", "u2"}, b \in DocBodies : CreateDocBegin(u, b)
    \/ \E r \in BagToSet(reqs) : CreateDocWrite(r)
    \/ \E t \in BagToSet(reqs) : EmitToFollowersLookup(t)
    \/ \E id \in {"d1", NewDocId}, b \in DocBodies : UpdateDocFind("u1", id, b)
    \/ \E r \in BagToSet(reqs) : UpdateDocWrite(r)
    \/ DeleteDocFind("u1", "d1")
    \/ \E r \in BagToSet(reqs) : DeleteDocTx(r)

SpecDocFeed == InitFeed /\ [][DocFeedNext]_vars

\* The calls of emitToFollowers a step starts and the ones it ends, and the
\* requests of a handler a step ends.
BroadcastsStarted ==
    {t \in BagToSet(reqs') : t.op = "emitToFollowers" /\ CopiesIn(t, reqs') > CopiesIn(t, reqs)}
BroadcastsEnded ==
    {t \in BagToSet(reqs) : t.op = "emitToFollowers" /\ CopiesIn(t, reqs') < CopiesIn(t, reqs)}
Ended(op) ==
    {r \in BagToSet(reqs) : r.op = op /\ CopiesIn(r, reqs') < CopiesIn(r, reqs)}

\* C30: createDoc calls emitToFollowers with 'new-doc' exactly when the doc
\* it has created is public; no step of updateDoc or deleteDoc calls it or
\* emits anything; so every event on the live channel is the new-doc of a
\* doc that was created public.
C30_OnlyPublicDocsBroadcast ==
    [][ /\ \A r \in Ended("createDoc") :
               \A d \in docs' \ docs :
                   d.isPublic <=>
                       \E t \in BroadcastsStarted :
                           /\ t.arg.eventName = "new-doc" /\ t.arg.payload = d.id
                           /\ t.arg.authorId = r.caller
        /\ BroadcastsStarted # {} =>
               /\ Ended("createDoc") # {}
               /\ \E d \in docs' \ docs : d.isPublic
        /\ emitted' # emitted =>
               /\ BroadcastsEnded # {}
               /\ \A e \in BagToSet(emitted') :
                      CopiesIn(e, emitted') > CopiesIn(e, emitted) => e.event = "new-doc"
        /\ (out'.op \in {"updateDoc", "deleteDoc"}
                \/ Ended("updateDoc") # {} \/ Ended("deleteDoc") # {}) =>
               /\ emitted' = emitted
               /\ BroadcastsStarted = {}
      ]_vars

\* A private doc has been created and nothing was or will be broadcast.
C30_Witness ==
    /\ out.op = "createDoc" /\ out.status = 201 /\ ~out.body.doc.isPublic
    /\ out.body.doc \in docs
    /\ emitted = EmptyBag
    /\ InFlightOf("emitToFollowers") = 0

====
